---- MODULE Spec2Model ----
(***************************************************************************)
(* Model of thonny/plugins/find_in_files.py: the "find in files" dialog.   *)
(*                                                                         *)
(* The dialog object lives on the Tk main thread; every search runs in a   *)
(* daemon thread (worker) that shares two fields of the dialog with the    *)
(* main thread: _cancel_requested and _results_queue.  Text is modelled as *)
(* sequences of one-character strings, so that strip, lower, find and      *)
(* fnmatch are computed position by position as the code does.             *)
(***************************************************************************)
EXTENDS Integers, Sequences, FiniteSets, TLC

(***************************************************************************)
(* Bounds of the model.                                                    *)
(***************************************************************************)
\* Number of searches (worker threads) a run under Spec may launch; a run under
\* SpecRestart may launch one more, so that a search can be started while the
\* thread of an earlier, cancelled search is still running.
MaxSearches == 1

\* _MAX_HISTORY, find_in_files.py line 45.
MAX_HISTORY == 20

(***************************************************************************)
(* Text helpers (str methods used by the code).                            *)
(***************************************************************************)
\* Characters str.strip() removes (whitespace).
IsSpace(c) == c \in {" ", "\t", "\n"}

\* str.lower() of one character; the result is a string (a sequence).
LowerChar(c) ==
    CASE c = "A" -> <<"a">>
      [] c = "B" -> <<"b">>
      [] OTHER   -> <<c>>

RECURSIVE Lower(_)
\* str.lower(): character by character.
Lower(s) == IF s = <<>> THEN <<>> ELSE LowerChar(Head(s)) \o Lower(Tail(s))

RECURSIVE LStrip(_)
LStrip(s) == IF s # <<>> /\ IsSpace(Head(s)) THEN LStrip(Tail(s)) ELSE s

RECURSIVE RStrip(_)
RStrip(s) ==
    IF s # <<>> /\ IsSpace(s[Len(s)]) THEN RStrip(SubSeq(s, 1, Len(s) - 1)) ELSE s

\* str.strip()
Strip(s) == RStrip(LStrip(s))

\* The least element of a non-empty set of integers.
Min(S) == CHOOSE x \in S : \A y \in S : x <= y

\* str.find(needle, start): the lowest 0-based index >= start at which needle
\* occurs in haystack, or -1.
Find(haystack, needle, start) ==
    LET cands == { i \in start .. (Len(haystack) - Len(needle)) :
                       SubSeq(haystack, i + 1, i + Len(needle)) = needle }
    IN  IF cands = {} THEN -1 ELSE Min(cands)

RECURSIVE SplitLines(_, _)
\* str.splitlines() for "\n" line ends: cur is the line being collected.
SplitLines(text, cur) ==
    IF text = <<>> THEN (IF cur = <<>> THEN <<>> ELSE <<cur>>)
    ELSE IF Head(text) = "\n" THEN <<cur>> \o SplitLines(Tail(text), <<>>)
    ELSE SplitLines(Tail(text), Append(cur, Head(text)))

RECURSIVE Fnmatch(_, _)
\* fnmatch.fnmatch(name, pattern) for patterns made of literals, "*" and "?".
Fnmatch(name, pat) ==
    IF pat = <<>> THEN name = <<>>
    ELSE IF Head(pat) = "*"
         THEN Fnmatch(name, Tail(pat)) \/ (name # <<>> /\ Fnmatch(Tail(name), pat))
    ELSE IF name = <<>> THEN FALSE
    ELSE (Head(pat) = "?" \/ Head(pat) = Head(name)) /\ Fnmatch(Tail(name), Tail(pat))

RECURSIVE RemoveFirst(_, _)
\* list.remove(value): drops the first occurrence.
RemoveFirst(s, v) ==
    IF s = <<>> THEN <<>>
    ELSE IF Head(s) = v THEN Tail(s) ELSE <<Head(s)>> \o RemoveFirst(Tail(s), v)

\* value in list
Contains(s, v) == \E i \in 1 .. Len(s) : s[i] = v

(***************************************************************************)
(* The local file system the worker walks.  A tree is the pre-order        *)
(* listing of a root: a directory item is followed by its subtree and      *)
(* `end` is the index just after that subtree.                             *)
(***************************************************************************)
Dir(name, path, end, listable) ==
    [kind |-> "dir", name |-> name, path |-> path, end |-> end,
     listable |-> listable, readable |-> TRUE, staterr |-> FALSE, text |-> <<>>]

File(name, path, text, readable) ==
    [kind |-> "file", name |-> name, path |-> path, end |-> 0,
     listable |-> FALSE, readable |-> readable, staterr |-> FALSE, text |-> text]

\* thonny.common.IGNORED_FILES_AND_DIRS (imported at line 18): names pruned by
\* the walker.  ".g" stands for a VCS metadata folder.
IGNORED_FILES_AND_DIRS == { <<".", "g">> }

\* /p
\*   a.t   "a"
TreeP ==
    << Dir(<<"p">>, "/p", 3, TRUE),
       File(<<"a", ".", "t">>, "/p/a.t", <<"a">>, TRUE) >>

\* An entry whose stat fails with an error that Path.is_dir() re-raises
\* (PermissionError: the directory that holds it may be listed but not searched).
Denied(name, path) ==
    [kind |-> "file", name |-> name, path |-> path, end |-> 0,
     listable |-> FALSE, readable |-> FALSE, staterr |-> TRUE, text |-> <<>>]

\* /e
\*   x     (stat fails)
\*   b.t   "a"
TreeE ==
    << Dir(<<"e">>, "/e", 4, TRUE),
       Denied(<<"x">>, "/e/x"),
       File(<<"b", ".", "t">>, "/e/b.t", <<"a">>, TRUE) >>

\* /s
\*   .g/
\*     c.t   "a"
\*   d.x     "a"
\*   f.t     "aaa" / "Ab"
TreeS ==
    << Dir(<<"s">>, "/s", 6, TRUE),
       Dir(<<".", "g">>, "/s/.g", 4, TRUE),
       File(<<"c", ".", "t">>, "/s/.g/c.t", <<"a">>, TRUE),
       File(<<"d", ".", "x">>, "/s/d.x", <<"a">>, TRUE),
       File(<<"f", ".", "t">>, "/s/f.t", <<"a", "a", "a", "\n", "A", "b">>, TRUE) >>

\* /c
\*   .g      "a"   (a file whose own name is in the ignore set)
\*   a.t     "a b"
\*   b.t     "A"
TreeC ==
    << Dir(<<"c">>, "/c", 5, TRUE),
       File(<<".", "g">>, "/c/.g", <<"a">>, TRUE),
       File(<<"a", ".", "t">>, "/c/a.t", <<"a", " ", "b">>, TRUE),
       File(<<"b", ".", "t">>, "/c/b.t", <<"A">>, TRUE) >>

\* Stands for a byte that is not valid in the encoding tokenize.open detects.
InvalidByte == "#"

\* /u
\*   k.t     (open fails: permission denied)
\*   m.t     <invalid byte> "a"
\*   n.t     "a"
TreeU ==
    << Dir(<<"u">>, "/u", 5, TRUE),
       File(<<"k", ".", "t">>, "/u/k.t", <<"a">>, FALSE),
       File(<<"m", ".", "t">>, "/u/m.t", <<InvalidByte, "a">>, TRUE),
       File(<<"n", ".", "t">>, "/u/n.t", <<"a">>, TRUE) >>

\* /o.x    "a"   (a path that is a regular file, not a directory)
TreeF ==
    << File(<<"o", ".", "x">>, "/o.x", <<"a">>, TRUE) >>

\* Paths that exist on the local file system, with their trees.
FileSystem ==
    [ p \in {"/p", "/e", "/s", "/c", "/u", "/o.x"} |->
        CASE p = "/p" -> TreeP
          [] p = "/o.x" -> TreeF
          [] p = "/e" -> TreeE
          [] p = "/s" -> TreeS
          [] p = "/c" -> TreeC
          [] OTHER    -> TreeU ]

\* A character the decoder accepts.
IsValidChar(c) == c # InvalidByte

\* _read_text returning "" where lines 542-543 return None.
ReadTextEmptyOnFailure(it) ==
    IF ~it.readable THEN [ok |-> TRUE, text |-> <<>>]
    ELSE [ok |-> TRUE, text |-> SelectSeq(it.text, IsValidChar)]

\* _read_text (lines 535-543) called at lines 465-468; ok = FALSE stands for
\* None.  tokenize.open raises OSError for a file that cannot be opened and
\* SyntaxError or UnicodeError for content that does not decode; the fallback,
\* read_text(encoding="utf-8", errors="ignore"), fails again in the first case
\* and returns the content without the undecodable bytes in the second.
ReadText(it) ==
    IF ~it.readable THEN [ok |-> FALSE, text |-> <<>>]
    ELSE IF \E i \in 1 .. Len(it.text) : ~IsValidChar(it.text[i])
    THEN [ok |-> TRUE, text |-> SelectSeq(it.text, IsValidChar)]
    ELSE [ok |-> TRUE, text |-> it.text]

\* Path(root).exists()
Exists(path) == path \in DOMAIN FileSystem

\* What _iter_files sees below root (nothing when root does not exist).
Tree(root) == IF Exists(root) THEN FileSystem[root] ELSE <<>>

RECURSIVE NextStopNoIgnore(_, _, _)
\* The walker without the test of lines 520-521 (the ignore set).
NextStopNoIgnore(tree, pattern, p) ==
    IF p > Len(tree) THEN p
    ELSE LET it == tree[p] IN
         IF it.staterr \/ it.kind = "dir" THEN p
         ELSE IF Fnmatch(it.name, pattern) THEN p
         ELSE NextStopNoIgnore(tree, pattern, p + 1)

RECURSIVE NextStopNoGlob(_, _, _)
\* _iter_files without the fnmatch tests of lines 525 and 529.
NextStopNoGlob(tree, pattern, p) ==
    IF p > Len(tree) THEN p
    ELSE LET it == tree[p] IN
         IF p > 1 /\ it.name \in IGNORED_FILES_AND_DIRS
         THEN NextStopNoGlob(tree, pattern, IF it.kind = "dir" THEN it.end ELSE p + 1)
         ELSE p

RECURSIVE NextStop(_, _, _)
\* _iter_files / walker, the part that touches no shared field: from item p on,
\* skip ignored names (with their subtrees) and files the glob rejects; stop at
\* the next directory to list, the next candidate file, an entry whose stat
\* fails, or past the end.  The root itself (item 1) is never tested against the
\* ignore set.
NextStop(tree, pattern, p) ==
    IF p > Len(tree) THEN p
    ELSE LET it == tree[p] IN
         IF p > 1 /\ it.name \in IGNORED_FILES_AND_DIRS
         THEN NextStop(tree, pattern, IF it.kind = "dir" THEN it.end ELSE p + 1)
         ELSE IF it.staterr \/ it.kind = "dir" THEN p
         ELSE IF Fnmatch(it.name, pattern) THEN p
         ELSE NextStop(tree, pattern, p + 1)

(***************************************************************************)
(* Values.                                                                 *)
(***************************************************************************)
\* tr(...) status texts; "Found %d matches in %d files" keeps its numbers.
StatusText(msg) == [msg |-> msg, matches |-> 0, files |-> 0, by |-> 0]

\* `by` records the thread whose summary the text shows (0: no summary).
FoundText(matches, files, by) ==
    [msg |-> "Found", matches |-> matches, files |-> files, by |-> by]

NoMatchesText(by) == [msg |-> "No matches found", matches |-> 0, files |-> 0, by |-> by]

\* self._results_queue = None
NoQueue == [open |-> FALSE, owner |-> 0, items |-> <<>>]

\* queue.Queue() created by the start that launched worker w.
NewQueue(w) == [open |-> TRUE, owner |-> w, items |-> <<>>]

\* The tuples a worker puts; `by` records the producing thread.
MatchMsg(w, path, lineno, col, line) ==
    [kind |-> "match", path |-> path, lineno |-> lineno, col |-> col, line |-> line,
     files |-> 0, matches |-> 0, by |-> w]

SummaryMsg(w, files, matches) ==
    [kind |-> "summary", path |-> "", lineno |-> 0, col |-> 0, line |-> <<>>,
     files |-> files, matches |-> matches, by |-> w]

DoneMsg(w) ==
    [kind |-> "done", path |-> "", lineno |-> 0, col |-> 0, line |-> <<>>,
     files |-> 0, matches |-> 0, by |-> w]

\* RootOption (lines 33-38).
RootOption(path, label, kind, uses_local_filesystem) ==
    [path |-> path, label |-> label, kind |-> kind,
     uses_local_filesystem |-> uses_local_filesystem]

NoRoot == RootOption("", "", "none", FALSE)

\* Widget states set together by _start_search and _finalize_search.
WidgetsIdle ==
    [search_button |-> "Search", root_combo |-> "readonly",
     filter_combo |-> "normal", search_combo |-> "normal"]

WidgetsBusy ==
    [search_button |-> "Stop", root_combo |-> "disabled",
     filter_combo |-> "disabled", search_combo |-> "disabled"]

\* A thread that was never started.
NoWorker ==
    [pc |-> "none", root |-> "", pattern |-> <<>>, search_text |-> <<>>,
     match_case |-> FALSE, pos |-> 0, lineno |-> 0, start |-> 0, index |-> 0,
     total_files |-> 0, total_matches |-> 0,
     ended |-> FALSE,        \* history: the traversal loop was left (line 504 reached)
     saw_cancel |-> FALSE,   \* history: a checkpoint read _cancel_requested as True
     raised |-> FALSE]       \* history: an exception left _run_search or worker

(***************************************************************************)
(* State.                                                                  *)
(***************************************************************************)
VARIABLES
    dlg,            \* the fields of the FindInFilesDialog object
    workers,        \* the search threads: thread id -> its locals and position
    nsearch,        \* number of threads started so far (the next id is nsearch + 1)
    budget,         \* number of searches the run may still launch
    timers,         \* pending Tk after(100, _poll_queue) callbacks, by the start
                    \* whose polling chain scheduled them
    main_pc,        \* where the main thread is: "loop" (Tk event loop),
                    \* "poll0" (in _start_search, before line 448),
                    \* "join" (in _cancel_search after line 452, at the
                    \* join(timeout=0.1) of lines 453-454),
                    \* "final" (in _finalize_search called by
                    \* _cancel_search, before line 582),
                    \* "djoin", "dfinal" (the same, called by destroy),
                    \* "gone" (the dialog has been destroyed),
                    \* "init" (in __init__, before line 88)
    produced,       \* history: thread id -> the messages it has put, in order
    cancelled,      \* history: ids of the threads whose search was cancelled
    callback_error, \* whether the last main-thread handler ended by an
                    \* exception that reached Tk
    added,          \* history: the value passed to the last _add_to_history call
    wb,             \* the workbench: the two persisted option lists, and whether
                    \* the dialog has been destroyed
    picked          \* history: the directory last chosen through the directory
                    \* picker ("" when none was chosen)

vars == <<dlg, workers, nsearch, budget, timers, main_pc, produced, cancelled,
         callback_error, added, wb, picked>>

WorkerIds == 1 .. MaxSearches + 1

\* threading.Thread.is_alive()
IsAlive(w) == w \in WorkerIds /\ workers[w].pc \notin {"none", "dead"}

(***************************************************************************)
(* Inputs of the runs checked under Spec.                                  *)
(***************************************************************************)
\* What the user may have typed in the "Find" box.
Terms == { <<"a">>, <<"a", " ">>, <<" ">> }

\* What the user may have typed in the "Filter" box.
Filters == { <<>> }

\* The option set after the first refresh: the active local directory and a
\* remote directory of a backend without a local file system.
InitialRootOptions ==
    << RootOption("/p", "/p", "local", FALSE),
       RootOption("/r", "Remote: /r", "remote", FALSE) >>

\* dict lookup by label: the option, or NoRoot when the label is no key.
LookupRoot(options, label) ==
    IF \E i \in 1 .. Len(options) : options[i].label = label
    THEN options[CHOOSE i \in 1 .. Len(options) : options[i].label = label]
    ELSE NoRoot

\* A value of the option store: a list of strings, or something else.
StoredList(items) == [list |-> TRUE, items |-> items]

StoredOther == [list |-> FALSE, items |-> <<>>]

\* _load_history (lines 257-261): the stored option when it is a list, else [].
LoadHistory(value) == IF value.list THEN value.items ELSE <<>>

RECURSIVE Unique(_, _)
\* The loop of _save_history (lines 264-267): the non-empty items of history
\* that are not yet in unique, appended in order.
Unique(history, unique) ==
    IF history = <<>> THEN unique
    ELSE Unique(Tail(history),
                IF Head(history) # <<>> /\ ~Contains(unique, Head(history))
                THEN Append(unique, Head(history)) ELSE unique)

\* _save_history passing the list on as it is.
SaveHistoryAsIs(history) == history

\* _save_history (lines 263-268): what set_option receives.
SaveHistory(history) ==
    LET unique == Unique(history, <<>>) IN
    SubSeq(unique, 1, IF Len(unique) < MAX_HISTORY THEN Len(unique) ELSE MAX_HISTORY)

\* __init__ (lines 62-90) followed by the first _refresh_root_options, which
\* found the options `options`; the two stored history lists are terms and
\* filters; the run may launch n searches.  With no options the dialog is still
\* in __init__ at line 87, before that first refresh.
InitDialog(n, options, terms, filters) ==
    /\ budget = n
    /\ added = <<>>
    /\ wb = [recent_terms |-> terms, recent_filters |-> filters]
    /\ picked = ""
    /\ dlg = [ search_history   |-> LoadHistory(terms),
               filter_history   |-> LoadHistory(filters),
               root_var         |-> IF options = <<>> THEN "" ELSE options[1].label,
               status_var       |-> StatusText(""),
               root_options     |-> options,
               search_text      |-> <<>>,
               current_root     |-> NoRoot,
               search_thread    |-> 0,
               results_queue    |-> NoQueue,
               cancel_requested |-> FALSE,
               search_running   |-> FALSE,
               poll_after       |-> 0,
               matches          |-> <<>>,
               tree_rows        |-> <<>>,
               widgets          |-> WidgetsIdle ]
    /\ workers = [w \in WorkerIds |-> NoWorker]
    /\ nsearch = 0
    /\ timers = {}
    /\ main_pc = IF options = <<>> THEN "init" ELSE "loop"
    /\ produced = [w \in WorkerIds |-> <<>>]
    /\ cancelled = {}
    /\ callback_error = FALSE

\* A first session (nothing stored yet) with the option set InitialRootOptions.
InitWith(n) == InitDialog(n, InitialRootOptions, StoredList(<<>>), StoredList(<<>>))

Init == InitWith(MaxSearches)

InitRestart == InitWith(MaxSearches + 1)

(***************************************************************************)
(* Methods of the dialog, as functions of the dialog's fields.             *)
(***************************************************************************)
\* _add_to_history without line 277 (del history[_MAX_HISTORY:]).
AddToHistoryNoTruncate(history, value) ==
    LET v == Strip(value)
        h == IF Contains(history, v) THEN RemoveFirst(history, v) ELSE history
    IN  IF v = <<>> THEN history ELSE <<v>> \o h

\* _add_to_history (lines 270-277)
AddToHistory(history, value) ==
    LET v == Strip(value)
        h == IF Contains(history, v) THEN RemoveFirst(history, v) ELSE history
        n == <<v>> \o h
    IN  IF v = <<>> THEN history
        ELSE SubSeq(n, 1, IF Len(n) < MAX_HISTORY THEN Len(n) ELSE MAX_HISTORY)

\* _finalize_search, lines 576-581, without the widget updates of lines 578-581.
FinalizeSearchFlagsNoWidgets(d) ==
    [d EXCEPT !.search_running   = FALSE,
              !.cancel_requested = FALSE]

\* _finalize_search, lines 576-581: the write of _cancel_requested (line 577)
\* with the main thread's own work around it.  The calls into Tk of lines
\* 578-581 let other threads run before line 582.
FinalizeSearchFlags(d) ==
    [d EXCEPT !.search_running   = FALSE,
              !.cancel_requested = FALSE,
              !.widgets          = WidgetsIdle]

\* _finalize_search, lines 582-585: the write of _results_queue (line 582) and
\* what follows; message "" stands for None.
FinalizeSearchQueue(d, message) ==
    [d EXCEPT !.results_queue    = NoQueue,
              !.search_thread    = 0,
              !.status_var       = IF message # "" THEN StatusText(message) ELSE @]

\* _finalize_search (lines 575-585) as a whole, as _poll_queue calls it: the
\* flag is already False there, so the write of line 582 is the only change a
\* thread can see.
FinalizeSearch(d, message) == FinalizeSearchQueue(FinalizeSearchFlags(d), message)

\* The decimal digits.
DigitChars == << "0", "1", "2", "3", "4", "5", "6", "7", "8", "9" >>

RECURSIVE Str(_)
\* str(n) for n >= 0 (line 602): the decimal digits of n.
Str(n) ==
    IF n < 10 THEN << DigitChars[n + 1] >>
    ELSE Str(n \div 10) \o << DigitChars[(n % 10) + 1] >>

RECURSIVE IntFrom(_, _)
\* int(s) (line 610) for a string of digits, acc being the value of the digits
\* read so far; -1 stands for ValueError (a character that is no digit).
IntFrom(s, acc) ==
    IF s = <<>> THEN acc
    ELSE IF \E k \in 1 .. 10 : DigitChars[k] = Head(s)
    THEN IntFrom(Tail(s), 10 * acc + (CHOOSE k \in 1 .. 10 : DigitChars[k] = Head(s)) - 1)
    ELSE -1

\* int(s)
ParseInt(s) == IF s = <<>> THEN -1 ELSE IntFrom(s, 0)

\* The snippet column of a row (lines 596-598).
Snippet(line) ==
    LET snippet == Strip(line) IN
    IF Len(snippet) > 200 THEN SubSeq(snippet, 1, 197) \o << "..." >> ELSE snippet

\* _add_match with the iid taken after the append without the "- 1".
AddMatchIidFromOne(d, m) ==
    [d EXCEPT !.matches   = Append(@, [path |-> m.path, lineno |-> m.lineno,
                                       col |-> m.col, line |-> m.line, by |-> m.by]),
              !.tree_rows = Append(@, [iid |-> Str(Len(d.matches) + 1), lineno |-> m.lineno,
                                       snippet |-> Snippet(m.line)])]

\* _add_match (lines 587-603): the stored SearchMatch and its row, whose iid is
\* str(len(self._matches) - 1) after the append.
AddMatch(d, m) ==
    [d EXCEPT !.matches   = Append(@, [path |-> m.path, lineno |-> m.lineno,
                                       col |-> m.col, line |-> m.line, by |-> m.by]),
              !.tree_rows = Append(@, [iid |-> Str(Len(d.matches)), lineno |-> m.lineno,
                                       snippet |-> Snippet(m.line)])]

\* None, where a SearchMatch is expected.
NoMatch == [path |-> "", lineno |-> 0, col |-> 0, line |-> <<>>, by |-> 0]

\* _get_selected_match (lines 605-615); selection is what self._tree.selection()
\* returns, the iids of the selected rows.
GetSelectedMatch(d, selection) ==
    IF selection = <<>> THEN NoMatch
    ELSE LET index == ParseInt(selection[1]) IN
         IF 0 <= index /\ index < Len(d.matches) THEN d.matches[index + 1] ELSE NoMatch

RECURSIVE Drain(_, _)
\* The loop of _poll_queue (lines 550-568) over the items get_nowait returns.
\* After "done" the queue field is None, so the next get_nowait raises
\* AttributeError, which `except queue.Empty` does not catch.
Drain(d, items) ==
    IF items = <<>> THEN [d |-> d, raised |-> FALSE]
    ELSE LET it == Head(items) IN
         CASE it.kind = "match" -> Drain(AddMatch(d, it), Tail(items))
           [] it.kind = "summary" ->
                Drain(IF d.search_running
                      THEN [d EXCEPT !.status_var =
                                IF it.matches # 0
                                THEN FoundText(it.matches, it.files, it.by)
                                ELSE NoMatchesText(it.by)]
                      ELSE d,
                      Tail(items))
           [] OTHER -> [d |-> FinalizeSearch(d, ""), raised |-> TRUE]

\* _poll_queue (lines 545-573), run for the polling chain k; resched says
\* whether line 571 scheduled the next tick.
PollQueue(d, k) ==
    IF ~d.results_queue.open THEN [d |-> d, resched |-> FALSE, raised |-> FALSE]
    ELSE LET r == Drain([d EXCEPT !.results_queue.items = <<>>], d.results_queue.items)
         IN  IF r.raised THEN [d |-> r.d, resched |-> FALSE, raised |-> TRUE]
             ELSE IF r.d.search_running
                  THEN [d |-> [r.d EXCEPT !.poll_after = k],
                        resched |-> TRUE, raised |-> FALSE]
                  ELSE [d |-> [r.d EXCEPT !.poll_after = 0],
                        resched |-> FALSE, raised |-> FALSE]

(***************************************************************************)
(* Main-thread handlers.  A handler runs to its end before the event loop  *)
(* takes the next event, except where _cancel_search blocks in join.       *)
(***************************************************************************)
\* The thread that _start_search starts: positioned at the first stop of
\* _iter_files(root_path, pattern).
LaunchedWorker(root, pattern, search_text, match_case) ==
    LET first == NextStop(Tree(root), pattern, 1) IN
    [NoWorker EXCEPT !.pc = IF first > Len(Tree(root)) THEN "sum_chk" ELSE "walk",
                     !.ended = first > Len(Tree(root)),
                     !.root = root, !.pattern = pattern,
                     !.search_text = search_text, !.match_case = match_case,
                     !.pos = IF first > Len(Tree(root)) THEN 0 ELSE first]

\* The validation without the test of lines 412-415 (root_path.exists()).
ValidationMessageNoExistsCheck(root_label, root_option, search_text) ==
    IF root_label = "" \/ root_option = NoRoot
    THEN "Select a valid root folder."
    ELSE IF root_option.kind = "remote" /\ ~root_option.uses_local_filesystem
    THEN "Searching remote files is not supported for this backend."
    ELSE IF search_text = <<>>
    THEN "Enter search text"
    ELSE ""

\* The validation without the test of lines 405-408 (empty search text).
ValidationMessageNoTextCheck(root_label, root_option, search_text) ==
    IF root_label = "" \/ root_option = NoRoot
    THEN "Select a valid root folder."
    ELSE IF root_option.kind = "remote" /\ ~root_option.uses_local_filesystem
    THEN "Searching remote files is not supported for this backend."
    ELSE IF ~Exists(root_option.path)
    THEN "The selected root folder does not exist."
    ELSE ""

\* _start_search, lines 394-415: the message of the first validation that
\* fails, or "" when all pass.
ValidationMessage(root_label, root_option, search_text) ==
    IF root_label = "" \/ root_option = NoRoot
    THEN "Select a valid root folder."
    ELSE IF root_option.kind = "remote" /\ ~root_option.uses_local_filesystem
    THEN "Searching remote files is not supported for this backend."
    ELSE IF search_text = <<>>
    THEN "Enter search text"
    ELSE IF ~Exists(root_option.path)
    THEN "The selected root folder does not exist."
    ELSE ""

\* _start_search returning after a failed validation: only the status is set.
RejectStart(msg) ==
    /\ dlg' = [dlg EXCEPT !.status_var = StatusText(msg)]
    /\ callback_error' = FALSE
    /\ UNCHANGED <<workers, nsearch, budget, timers, main_pc, produced, cancelled, added, wb, picked>>

\* _start_search from line 417 on without the clearing of lines 422-423.
LaunchSearchKeepResults(root_option, search_text, file_filter, match_case) ==
    LET w == nsearch + 1 IN
    /\ budget > 0
    /\ budget' = budget - 1
    /\ dlg' = [dlg EXCEPT
                 !.search_history   = AddToHistory(@, search_text),
                 !.filter_history   = AddToHistory(@, file_filter),
                 !.status_var       = StatusText("Searching"),
                 !.search_text      = search_text,
                 !.current_root     = root_option,
                 !.cancel_requested = FALSE,
                 !.search_running   = TRUE,
                 !.widgets          = WidgetsBusy,
                 !.results_queue    = NewQueue(w),
                 !.search_thread    = w]
    /\ workers' = [workers EXCEPT ![w] =
          LaunchedWorker(root_option.path, file_filter, search_text, match_case)]
    /\ nsearch' = w
    /\ main_pc' = "poll0"
    /\ callback_error' = FALSE
    /\ added' = file_filter
    /\ UNCHANGED <<timers, produced, cancelled, wb, picked>>

\* _start_search, lines 417-447: record the histories, clear the results, enter
\* the running state and start the thread.
LaunchSearch(root_option, search_text, file_filter, match_case) ==
    LET w == nsearch + 1 IN
    /\ budget > 0
    /\ budget' = budget - 1
    /\ dlg' = [dlg EXCEPT
                 !.search_history   = AddToHistory(@, search_text),
                 !.filter_history   = AddToHistory(@, file_filter),
                 !.tree_rows        = <<>>,
                 !.matches          = <<>>,
                 !.status_var       = StatusText("Searching"),
                 !.search_text      = search_text,
                 !.current_root     = root_option,
                 !.cancel_requested = FALSE,
                 !.search_running   = TRUE,
                 !.widgets          = WidgetsBusy,
                 !.results_queue    = NewQueue(w),
                 !.search_thread    = w]
    /\ workers' = [workers EXCEPT ![w] =
          LaunchedWorker(root_option.path, file_filter, search_text, match_case)]
    /\ nsearch' = w
    /\ main_pc' = "poll0"
    /\ callback_error' = FALSE
    /\ added' = file_filter
    /\ UNCHANGED <<timers, produced, cancelled, wb, picked>>

\* _start_search from line 394 on (the session is not running).
StartSearchIdle(term, filter, match_case) ==
    LET root_label  == dlg.root_var
        root_option == LookupRoot(dlg.root_options, root_label)
        search_text == Strip(term)
        file_filter == IF Strip(filter) = <<>> THEN <<"*">> ELSE Strip(filter)
        msg         == ValidationMessage(root_label, root_option, search_text)
    IN  IF msg # "" THEN RejectStart(msg)
        ELSE LaunchSearch(root_option, search_text, file_filter, match_case)

\* _start_search without the test of lines 391-392.
StartSearchUnguarded(term, filter, match_case) ==
    /\ main_pc = "loop"
    /\ StartSearchIdle(term, filter, match_case)

\* _start_search, lines 390-447 (line 448, the first _poll_queue, is PollStart).
StartSearch(term, filter, match_case) ==
    /\ main_pc = "loop"
    /\ IF dlg.search_running
       THEN /\ callback_error' = FALSE
            /\ UNCHANGED <<dlg, workers, nsearch, budget, timers, main_pc, produced, cancelled, added, wb, picked>>
       ELSE StartSearchIdle(term, filter, match_case)

\* _start_search line 448: the first _poll_queue, called directly.  The thread
\* started at line 447 and any older thread may have run in between.
PollStart ==
    LET r == PollQueue(dlg, nsearch) IN
    /\ main_pc = "poll0"
    /\ dlg' = r.d
    /\ timers' = IF r.resched THEN timers \cup {nsearch} ELSE timers
    /\ callback_error' = r.raised
    /\ main_pc' = "loop"
    /\ UNCHANGED <<workers, nsearch, budget, produced, cancelled, added, wb, picked>>

\* A pending after(100, self._poll_queue) callback of chain k fires.
PollTimer(k) ==
    LET r == PollQueue(dlg, k) IN
    /\ main_pc = "loop"
    /\ k \in timers
    /\ dlg' = r.d
    /\ timers' = IF r.resched THEN timers ELSE timers \ {k}
    /\ callback_error' = r.raised
    /\ UNCHANGED <<workers, nsearch, budget, main_pc, produced, cancelled, added, wb, picked>>

\* _cancel_search, line 452: the flag is set.  Every thread still running
\* reads it from now on, the thread of an earlier search included; the main
\* thread goes on to lines 453-454 (join(timeout=0.1) when the thread is alive).
CancelSearch ==
    /\ main_pc = "loop"
    /\ cancelled' = cancelled \cup ({dlg.search_thread} \ {0})
    /\ callback_error' = FALSE
    /\ dlg' = [dlg EXCEPT !.cancel_requested = TRUE]
    /\ main_pc' = "join"
    /\ UNCHANGED <<workers, nsearch, budget, timers, produced, added, wb, picked>>

\* CancelSearchJoined with join() called without a timeout: it returns only once
\* the thread has ended.
CancelSearchJoinedNoTimeout ==
    /\ main_pc = "join"
    /\ ~IsAlive(dlg.search_thread)
    /\ dlg' = FinalizeSearchFlags([dlg EXCEPT !.search_thread = 0])
    /\ main_pc' = "final"
    /\ callback_error' = FALSE
    /\ UNCHANGED <<workers, nsearch, budget, timers, produced, cancelled, added, wb, picked>>

\* _cancel_search, lines 453-456 up to line 581 of _finalize_search: the thread
\* was not alive, or join returns because the thread ended or because the
\* 0.1 s ran out; _search_thread is dropped and the flag is cleared.
CancelSearchJoined ==
    /\ main_pc = "join"
    /\ dlg' = FinalizeSearchFlags([dlg EXCEPT !.search_thread = 0])
    /\ main_pc' = "final"
    /\ callback_error' = FALSE
    /\ UNCHANGED <<workers, nsearch, budget, timers, produced, cancelled, added, wb, picked>>

\* _cancel_search, the rest of _finalize_search (lines 582-585): the queue is
\* dropped and the status set; the handler returns.
CancelSearchFinalized ==
    /\ main_pc = "final"
    /\ dlg' = FinalizeSearchQueue(dlg, "Search cancelled")
    /\ main_pc' = "loop"
    /\ callback_error' = FALSE
    /\ UNCHANGED <<workers, nsearch, budget, timers, produced, cancelled, added, wb, picked>>

\* destroy, lines 94-121, after _cancel_search has left the dialog as d: the
\* pending poll callback is cancelled, both histories are saved and the window
\* is destroyed, which drops every callback still registered for it.
DestroyRest(d) ==
    /\ dlg' = [d EXCEPT !.poll_after = 0]
    /\ timers' = {}
    /\ wb' = [recent_terms   |-> StoredList(SaveHistory(d.search_history)),
              recent_filters |-> StoredList(SaveHistory(d.filter_history))]
    /\ main_pc' = "gone"
    /\ UNCHANGED picked

\* destroy (lines 92-121): the window is closed.  _cancel_search is called
\* whether or not a search is running (line 93); this is its line 452.
Destroy ==
    /\ main_pc = "loop"
    /\ cancelled' = cancelled \cup ({dlg.search_thread} \ {0})
    /\ callback_error' = FALSE
    /\ dlg' = [dlg EXCEPT !.cancel_requested = TRUE]
    /\ main_pc' = "djoin"
    /\ UNCHANGED <<workers, nsearch, budget, timers, produced, added, wb, picked>>

\* destroy: _cancel_search, lines 453-456 up to line 581 of _finalize_search.
DestroyJoined ==
    /\ main_pc = "djoin"
    /\ dlg' = FinalizeSearchFlags([dlg EXCEPT !.search_thread = 0])
    /\ main_pc' = "dfinal"
    /\ callback_error' = FALSE
    /\ UNCHANGED <<workers, nsearch, budget, timers, produced, cancelled, added, wb, picked>>

\* destroy: the rest of _finalize_search (lines 582-585), then lines 94-121.
DestroyFinalized ==
    /\ main_pc = "dfinal"
    /\ DestroyRest(FinalizeSearchQueue(dlg, "Search cancelled"))
    /\ callback_error' = FALSE
    /\ UNCHANGED <<workers, nsearch, budget, produced, cancelled, added>>

\* _on_search_button_click (lines 384-388)
OnSearchButtonClick(term, filter, match_case) ==
    IF dlg.search_running THEN CancelSearch ELSE StartSearch(term, filter, match_case)

\* <Return> in the search or filter combobox (lines 141-155)
OnReturnKey(term, filter, match_case) == StartSearch(term, filter, match_case)

\* The user picks another entry of the root combobox (readonly, line 160-165).
SelectRoot(i) ==
    /\ main_pc = "loop"
    /\ dlg.widgets.root_combo # "disabled"
    /\ i \in 1 .. Len(dlg.root_options)
    /\ dlg.root_options[i].label # dlg.root_var
    /\ dlg' = [dlg EXCEPT !.root_var = dlg.root_options[i].label]
    /\ callback_error' = FALSE
    /\ UNCHANGED <<workers, nsearch, budget, timers, main_pc, produced, cancelled, added, wb, picked>>

\* os.getcwd()
Cwd == "/p"

\* What get_active_local_dir may return ("" stands for None).
LocalDirs == { "/p" }

\* What get_active_remote_dir may return ("" stands for None).
RemoteDirs == { "", "/r" }

\* key in dict
HasLabel(options, label) == \E i \in 1 .. Len(options) : options[i].label = label

\* options[option.label] = option: a dict keeps the position of a key it has.
SetOption(options, option) ==
    IF HasLabel(options, option.label)
    THEN [i \in 1 .. Len(options) |->
             IF options[i].label = option.label THEN option ELSE options[i]]
    ELSE Append(options, option)

\* _create_remote_option with the kind fixed to "local".
CreateRemoteOptionAlwaysLocal(remote_dir, uses_local_fs, label_prefix) ==
    IF remote_dir = "" THEN NoRoot
    ELSE RootOption(remote_dir, label_prefix \o ": " \o remote_dir, "local", uses_local_fs)

\* _create_remote_option (lines 354-382): NoRoot stands for None.
CreateRemoteOption(remote_dir, uses_local_fs, label_prefix) ==
    IF remote_dir = "" THEN NoRoot
    ELSE RootOption(remote_dir, label_prefix \o ": " \o remote_dir,
                    IF uses_local_fs THEN "local" ELSE "remote", uses_local_fs)

\* _refresh_root_options without the fallback of lines 317-319.
BuildOptionsNoFallback(local_dir, remote_dir, uses_local_fs) ==
    LET o1            == IF local_dir # ""
                         THEN << RootOption(local_dir, local_dir, "local", FALSE) >>
                         ELSE <<>>
        remote_option == CreateRemoteOption(remote_dir, uses_local_fs, "Remote")
    IN  IF remote_option # NoRoot THEN SetOption(o1, remote_option) ELSE o1

\* _refresh_root_options, lines 307-319: the dict `options` built from the
\* active local directory, the remote option and, when both are missing, the
\* current working directory.
BuildOptions(local_dir, remote_dir, uses_local_fs) ==
    LET o1            == IF local_dir # ""
                         THEN << RootOption(local_dir, local_dir, "local", FALSE) >>
                         ELSE <<>>
        remote_option == CreateRemoteOption(remote_dir, uses_local_fs, "Remote")
        o2            == IF remote_option # NoRoot THEN SetOption(o1, remote_option) ELSE o1
    IN  IF o2 = <<>> THEN << RootOption(Cwd, Cwd, "local", FALSE) >> ELSE o2

\* _refresh_root_options without line 328, which puts the selected option of
\* the previous set back into the rebuilt one.
RefreshedDialogNoPutBack(d, local_dir, remote_dir, uses_local_fs) ==
    LET previous         == d.root_var
        options          == BuildOptions(local_dir, remote_dir, uses_local_fs)
        previous_options == d.root_options
    IN  IF previous # "" /\ (HasLabel(options, previous) \/ HasLabel(previous_options, previous))
        THEN [d EXCEPT !.root_options = options, !.root_var = previous]
        ELSE [d EXCEPT !.root_options = options,
                       !.root_var = IF options = <<>> THEN previous ELSE options[1].label]

\* _refresh_root_options (lines 304-334) on the dialog d, with what the
\* workbench reports at that moment: the fields of d afterwards.
RefreshedDialog(d, local_dir, remote_dir, uses_local_fs) ==
    LET previous         == d.root_var
        options          == BuildOptions(local_dir, remote_dir, uses_local_fs)
        previous_options == d.root_options
    IN  IF previous # "" /\ HasLabel(options, previous)
        THEN [d EXCEPT !.root_options = options, !.root_var = previous]
        ELSE IF previous # "" /\ HasLabel(previous_options, previous)
        THEN [d EXCEPT !.root_options =
                          SetOption(options, LookupRoot(previous_options, previous)),
                       !.root_var = previous]
        ELSE [d EXCEPT !.root_options = options,
                       !.root_var = IF options = <<>> THEN previous ELSE options[1].label]

\* _refresh_root_options run by the root poll timer (_on_root_poll, every 2 s)
\* or a backend event (_on_backend_event).
RefreshRootOptions(local_dir, remote_dir, uses_local_fs) ==
    /\ main_pc = "loop"
    /\ dlg' = RefreshedDialog(dlg, local_dir, remote_dir, uses_local_fs)
    /\ callback_error' = FALSE
    /\ UNCHANGED <<workers, nsearch, budget, timers, main_pc, produced, cancelled, added, wb, picked>>

\* __init__, line 88: the first _refresh_root_options, made before the event
\* loop handles any event of the dialog.
InitRefresh(local_dir, remote_dir, uses_local_fs) ==
    /\ main_pc = "init"
    /\ dlg' = RefreshedDialog(dlg, local_dir, remote_dir, uses_local_fs)
    /\ main_pc' = "loop"
    /\ UNCHANGED <<workers, nsearch, budget, timers, produced, cancelled, callback_error, added, wb, picked>>

\* _choose_local_root (lines 279-291): askdirectory returned path ("" when the
\* user dismissed it, after which nothing changes).
ChooseLocalRoot(path) ==
    /\ main_pc = "loop"
    /\ IF path # ""
       THEN /\ dlg' = [dlg EXCEPT
                         !.root_options = SetOption(@, RootOption(path, path, "local", FALSE)),
                         !.root_var = path]
            /\ picked' = path
       ELSE UNCHANGED <<dlg, picked>>
    /\ callback_error' = FALSE
    /\ UNCHANGED <<workers, nsearch, budget, timers, main_pc, produced, cancelled, added, wb>>

(***************************************************************************)
(* The worker thread (worker, _run_search, _iter_files).  Each action is   *)
(* one read or write of a field shared with the main thread, together with *)
(* the thread-local work up to the next such access.                       *)
(***************************************************************************)
\* The lines of the file the worker is scanning.
LinesOf(wk) == SplitLines(ReadText(Tree(wk.root)[wk.pos]).text, <<>>)

\* needle, lines 474-477
Needle(wk) == IF wk.match_case THEN wk.search_text ELSE Lower(wk.search_text)

\* haystack without the lowering of line 480.
HaystackNoLower(wk, line) == line

\* haystack, line 480
Haystack(wk, line) == IF wk.match_case THEN line ELSE Lower(line)

\* start for the next find, advancing by one position whatever the needle.
NextStartByOne(wk) == wk.index + 1

\* start for the next find without the max(..., 1) of line 500.
NextStartNoMax(wk) == wk.index + Len(Needle(wk))

\* start for the next find, line 500
NextStart(wk) == wk.index + (IF Len(Needle(wk)) > 1 THEN Len(Needle(wk)) ELSE 1)

\* The outer for loop asks _iter_files for the next path, looking from item p:
\* either the walker stops at an item, or it is exhausted and line 504 is next.
Advance(wk, p) ==
    LET q == NextStop(Tree(wk.root), wk.pattern, p) IN
    IF q > Len(Tree(wk.root))
    THEN [wk EXCEPT !.pc = "sum_chk", !.ended = TRUE,
                    !.pos = 0, !.lineno = 0, !.start = 0, !.index = 0]
    ELSE [wk EXCEPT !.pc = "walk", !.pos = q, !.lineno = 0, !.start = 0, !.index = 0]

\* The thread has ended.
Dead(wk) == [wk EXCEPT !.pc = "dead", !.pos = 0, !.lineno = 0, !.start = 0, !.index = 0]

\* An exception leaves _run_search: the finally clause of worker is next.
Raise(wk) ==
    [wk EXCEPT !.pc = "fin_chk", !.raised = TRUE,
               !.pos = 0, !.lineno = 0, !.start = 0, !.index = 0]

\* self._results_queue.put(msg) by thread w
Put(w, msg) ==
    /\ dlg' = [dlg EXCEPT !.results_queue.items = Append(@, msg)]
    /\ produced' = [produced EXCEPT ![w] = Append(@, msg)]

\* walker line 512 for a directory, or _run_search lines 462-473 for a file the
\* walker yielded: one read of _cancel_requested.
WorkerWalk(w) ==
    LET wk == workers[w]
        it == Tree(wk.root)[wk.pos]
        seen == [wk EXCEPT !.saw_cancel = @ \/ dlg.cancel_requested]
    IN
    /\ wk.pc = "walk"
    /\ workers' = [workers EXCEPT ![w] =
         IF it.staterr THEN Raise(wk)
         ELSE IF it.kind = "dir"
         THEN IF dlg.cancel_requested \/ ~it.listable
              THEN Advance(seen, it.end)
              ELSE Advance(seen, wk.pos + 1)
         ELSE IF dlg.cancel_requested
         THEN [seen EXCEPT !.pc = "sum_chk", !.ended = TRUE, !.pos = 0]
         ELSE IF ~ReadText(it).ok
         THEN Advance(wk, wk.pos + 1)
         ELSE IF LinesOf(wk) = <<>>
         THEN Advance([wk EXCEPT !.total_files = @ + 1], wk.pos + 1)
         ELSE [wk EXCEPT !.total_files = @ + 1, !.pc = "scan", !.lineno = 1, !.start = 0]]
    /\ UNCHANGED <<dlg, nsearch, budget, timers, main_pc, produced, cancelled, callback_error, added, wb, picked>>

\* The occurrence loop without the checkpoint of lines 483-484.
WorkerScanNoCancelCheck(w) ==
    LET wk    == workers[w]
        line  == LinesOf(wk)[wk.lineno]
        index == Find(Haystack(wk, line), Needle(wk), wk.start)
    IN
    /\ wk.pc = "scan"
    /\ workers' = [workers EXCEPT ![w] =
         IF index = -1 THEN [wk EXCEPT !.pc = "after"]
         ELSE [wk EXCEPT !.pc = "chk", !.index = index, !.total_matches = @ + 1]]
    /\ UNCHANGED <<dlg, nsearch, budget, timers, main_pc, produced, cancelled, callback_error, added, wb, picked>>

\* Lines 483-489: read _cancel_requested, then find the next occurrence.
WorkerScan(w) ==
    LET wk    == workers[w]
        line  == LinesOf(wk)[wk.lineno]
        index == Find(Haystack(wk, line), Needle(wk), wk.start)
    IN
    /\ wk.pc = "scan"
    /\ workers' = [workers EXCEPT ![w] =
         IF dlg.cancel_requested THEN [wk EXCEPT !.pc = "after", !.saw_cancel = TRUE]
         ELSE IF index = -1 THEN [wk EXCEPT !.pc = "after"]
         ELSE [wk EXCEPT !.pc = "chk", !.index = index, !.total_matches = @ + 1]]
    /\ UNCHANGED <<dlg, nsearch, budget, timers, main_pc, produced, cancelled, callback_error, added, wb, picked>>

\* Line 490: `if self._results_queue is not None` (first read of the field).
WorkerCheckQueue(w) ==
    LET wk == workers[w] IN
    /\ wk.pc = "chk"
    /\ workers' = [workers EXCEPT ![w] =
         IF dlg.results_queue.open THEN [wk EXCEPT !.pc = "put"]
         ELSE [wk EXCEPT !.pc = "scan", !.start = NextStart(wk), !.index = 0]]
    /\ UNCHANGED <<dlg, nsearch, budget, timers, main_pc, produced, cancelled, callback_error, added, wb, picked>>

\* Lines 491-500: self._results_queue.put(("match", ...)) (second read of the
\* field: None here raises AttributeError).
WorkerPut(w) ==
    LET wk   == workers[w]
        line == LinesOf(wk)[wk.lineno]
    IN
    /\ wk.pc = "put"
    /\ IF dlg.results_queue.open
       THEN /\ Put(w, MatchMsg(w, Tree(wk.root)[wk.pos].path, wk.lineno, wk.index, line))
            /\ workers' = [workers EXCEPT ![w] =
                            [wk EXCEPT !.pc = "scan", !.start = NextStart(wk), !.index = 0]]
       ELSE /\ workers' = [workers EXCEPT ![w] = Raise(wk)]
            /\ UNCHANGED <<dlg, produced>>
    /\ UNCHANGED <<nsearch, budget, timers, main_pc, cancelled, callback_error, added, wb, picked>>

\* Lines 501-502 and the step of the two for loops: read _cancel_requested; when
\* set, leave the lines of this file; then the next line or the next path.
WorkerAfterLine(w) ==
    LET wk == workers[w] IN
    /\ wk.pc = "after"
    /\ workers' = [workers EXCEPT ![w] =
         IF dlg.cancel_requested
         THEN Advance([wk EXCEPT !.saw_cancel = TRUE], wk.pos + 1)
         ELSE IF wk.lineno < Len(LinesOf(wk))
         THEN [wk EXCEPT !.pc = "scan", !.lineno = @ + 1, !.start = 0]
         ELSE Advance(wk, wk.pos + 1)]
    /\ UNCHANGED <<dlg, nsearch, budget, timers, main_pc, produced, cancelled, callback_error, added, wb, picked>>

\* Line 504: `if self._results_queue is not None`
WorkerSummaryCheck(w) ==
    LET wk == workers[w] IN
    /\ wk.pc = "sum_chk"
    /\ workers' = [workers EXCEPT ![w] =
         [wk EXCEPT !.pc = IF dlg.results_queue.open THEN "sum_put" ELSE "fin_chk"]]
    /\ UNCHANGED <<dlg, nsearch, budget, timers, main_pc, produced, cancelled, callback_error, added, wb, picked>>

\* Line 505: self._results_queue.put(("summary", total_files, total_matches))
WorkerSummaryPut(w) ==
    LET wk == workers[w] IN
    /\ wk.pc = "sum_put"
    /\ IF dlg.results_queue.open
       THEN /\ Put(w, SummaryMsg(w, wk.total_files, wk.total_matches))
            /\ workers' = [workers EXCEPT ![w] = [wk EXCEPT !.pc = "fin_chk"]]
       ELSE /\ workers' = [workers EXCEPT ![w] = Raise(wk)]
            /\ UNCHANGED <<dlg, produced>>
    /\ UNCHANGED <<nsearch, budget, timers, main_pc, cancelled, callback_error, added, wb, picked>>

\* worker, line 443: `if self._results_queue is not None` in the finally clause
WorkerFinallyCheck(w) ==
    LET wk == workers[w] IN
    /\ wk.pc = "fin_chk"
    /\ workers' = [workers EXCEPT ![w] =
         IF dlg.results_queue.open THEN [wk EXCEPT !.pc = "fin_put"] ELSE Dead(wk)]
    /\ UNCHANGED <<dlg, nsearch, budget, timers, main_pc, produced, cancelled, callback_error, added, wb, picked>>

\* worker, line 444: self._results_queue.put(("done", None)); the thread ends.
WorkerFinallyPut(w) ==
    LET wk == workers[w] IN
    /\ wk.pc = "fin_put"
    /\ IF dlg.results_queue.open
       THEN /\ Put(w, DoneMsg(w))
            /\ workers' = [workers EXCEPT ![w] = Dead(wk)]
       ELSE /\ workers' = [workers EXCEPT ![w] = Dead([wk EXCEPT !.raised = TRUE])]
            /\ UNCHANGED <<dlg, produced>>
    /\ UNCHANGED <<nsearch, budget, timers, main_pc, cancelled, callback_error, added, wb, picked>>

\* One step of thread w.
WorkerStep(w) ==
    \/ WorkerWalk(w)
    \/ WorkerScan(w)
    \/ WorkerCheckQueue(w)
    \/ WorkerPut(w)
    \/ WorkerAfterLine(w)
    \/ WorkerSummaryCheck(w)
    \/ WorkerSummaryPut(w)
    \/ WorkerFinallyCheck(w)
    \/ WorkerFinallyPut(w)

(***************************************************************************)
(* The system.                                                             *)
(***************************************************************************)
\* One event handled by the main thread.
MainStep ==
    \/ \E term \in Terms, filter \in Filters, match_case \in {FALSE} :
          \/ OnSearchButtonClick(term, filter, match_case)
          \/ OnReturnKey(term, filter, match_case)
    \/ \E k \in WorkerIds : PollTimer(k)
    \/ PollStart
    \/ CancelSearchJoined
    \/ CancelSearchFinalized

Next == MainStep \/ \E w \in WorkerIds : WorkerStep(w)

\* A run that launches at most MaxSearches searches.
Spec == Init /\ [][Next]_vars

\* A run that may launch one search more.
SpecRestart == InitRestart /\ [][Next]_vars

\* Inputs of the runs checked under SpecScan: the active local directory when
\* the dialog opens (/o.x: a path that has since been replaced by a regular
\* file), and what the user types and ticks.
LocalRoots == { "/p", "/e", "/s", "/c", "/u", "/o.x" }

ScanTerms == { <<"a">>, <<"a", "a">>, <<"A">> }

ScanFilters == { <<>>, <<" ">>, <<"*", ".", "t">> }

InitScan ==
    \E root \in LocalRoots :
        InitDialog(MaxSearches, << RootOption(root, root, "local", FALSE) >>,
                   StoredList(<<>>), StoredList(<<>>))

ScanStep ==
    \E term \in ScanTerms, filter \in ScanFilters, match_case \in BOOLEAN :
        \/ OnSearchButtonClick(term, filter, match_case)
        \/ OnReturnKey(term, filter, match_case)

NextScan ==
    \/ ScanStep
    \/ \E k \in WorkerIds : PollTimer(k)
    \/ PollStart
    \/ CancelSearchJoined
    \/ CancelSearchFinalized
    \/ \E w \in WorkerIds : WorkerStep(w)

\* Runs over several trees, terms, globs and both case modes.
SpecScan == InitScan /\ [][NextScan]_vars

\* The user also picks roots, and the option set is refreshed.
RootStep ==
    \/ \E i \in 1 .. 3 : SelectRoot(i)
    \/ \E local_dir \in LocalDirs, remote_dir \in RemoteDirs, uses_local_fs \in BOOLEAN :
          RefreshRootOptions(local_dir, remote_dir, uses_local_fs)

NextRoots == Next \/ RootStep

\* A run of Spec in which the root selection and the option set change.
SpecRoots == Init /\ [][NextRoots]_vars

\* Inputs of the runs checked under SpecResolver: what get_active_local_dir and
\* askdirectory may return ("" stands for None and for a dismissed picker).
ActiveLocalDirs == { "", "/s" }

PickerDirs == { "", "/e", "/s" }

\* The dialog in __init__ at line 87: no option yet, nothing selected.
InitConstructing == InitDialog(0, <<>>, StoredList(<<>>), StoredList(<<>>))

NextResolver ==
    \/ \E local_dir \in ActiveLocalDirs, remote_dir \in RemoteDirs, uses_local_fs \in BOOLEAN :
          \/ InitRefresh(local_dir, remote_dir, uses_local_fs)
          \/ RefreshRootOptions(local_dir, remote_dir, uses_local_fs)
    \/ \E i \in 1 .. 4 : SelectRoot(i)
    \/ \E path \in PickerDirs : ChooseLocalRoot(path)

\* The root resolver alone: the first refresh, then refreshes, selections in
\* the combobox and directories chosen through the picker, in any order.
SpecResolver == InitConstructing /\ [][NextResolver]_vars

\* Inputs of the runs checked under SpecHistory: 25
\* distinct two-letter values, the lists a dialog may start with, and the values
\* passed to _add_to_history.
HistChars == << "a", "b", "c", "d", "e" >>

HistoryValue(i) == << HistChars[((i - 1) \div 5) + 1], HistChars[((i - 1) % 5) + 1] >>

\* Lists of distinct values of every length up to two more than the capacity,
\* lists with a repeated value, and a list with an empty string.
InitialLists ==
    { [i \in 1 .. n |-> HistoryValue(i)] : n \in 0 .. MAX_HISTORY + 2 }
    \cup { << HistoryValue(1), HistoryValue(2), HistoryValue(1) >>,
           << HistoryValue(2), HistoryValue(2) >>,
           << <<>>, HistoryValue(1) >> }

HistoryInputs ==
    { HistoryValue(1), HistoryValue(MAX_HISTORY), HistoryValue(25),
      <<" ">>, <<" ">> \o HistoryValue(2) \o <<" ">> }

\* A dialog whose term history is what _load_history returns for the stored
\* option: any list the store holds, unchanged, or [] for a value that is no list.
InitHistory ==
    \E v \in { StoredList(h) : h \in InitialLists } \cup { StoredOther } :
        InitDialog(0, InitialRootOptions, v, StoredList(<<>>))

\* One call self._add_to_history(self._search_history, value).
AddToHistoryCall(value) ==
    /\ main_pc = "loop"
    /\ dlg' = [dlg EXCEPT !.search_history = AddToHistory(@, value)]
    /\ added' = value
    /\ UNCHANGED <<workers, nsearch, budget, timers, main_pc, produced, cancelled,
                   callback_error, wb, picked>>

NextHistory == \E value \in HistoryInputs : AddToHistoryCall(value)

\* Any sequence of insertions into any initial list.
SpecHistory == InitHistory /\ [][NextHistory]_vars

NextClose == Next \/ Destroy \/ DestroyJoined \/ DestroyFinalized

\* Inputs of the runs checked under SpecSave: what the option store may hold
\* under the two keys when the dialog opens (nothing yet, a list longer than
\* the capacity, a list with an empty string and a repeated value, a value
\* that is no list).
StoredTerms ==
    { StoredList(<<>>),
      StoredList([i \in 1 .. MAX_HISTORY + 2 |-> HistoryValue(i)]),
      StoredList(<< HistoryValue(1), <<>>, HistoryValue(2), HistoryValue(1) >>),
      StoredOther }

StoredFilters == { StoredList(<<>>), StoredList(<< <<"*", ".", "t">>, <<"*", ".", "t">> >>) }

InitSave ==
    \E terms \in StoredTerms, filters \in StoredFilters :
        InitDialog(MaxSearches, InitialRootOptions, terms, filters)

\* A run of SpecClose that starts with histories loaded from the store.
SpecSave == InitSave /\ [][NextClose]_vars

\* A run of Spec in which the user may close the dialog.
SpecClose == Init /\ [][NextClose]_vars

\* join(timeout=0.1) returns: the main thread, once blocked in join, goes on
\* whether or not the worker thread takes another step.
FairSpec == Spec /\ WF_vars(CancelSearchJoined) /\ WF_vars(CancelSearchFinalized)

\* Arguments of _run_search(root_path, pattern, search_text, match_case) when
\* the thread function is run on them directly: search_text may be empty here,
\* which _start_search never passes on.
RunRoots == { "/s", "/c", "/o.x" }

RunPatterns == { <<"*">>, <<"*", ".", "t">> }

RunTerms == { <<>>, <<"a">>, <<"a", "a">> }

\* A dialog whose thread 1 runs worker() (lines 439-444) on such arguments, with
\* the queue of this search in place.
InitRunSearch ==
    \E root \in RunRoots, pattern \in RunPatterns, term \in RunTerms, match_case \in BOOLEAN :
        /\ budget = 0
        /\ added = pattern
        /\ wb = [recent_terms |-> StoredList(<<>>), recent_filters |-> StoredList(<<>>)]
        /\ picked = ""
        /\ dlg = [ search_history   |-> <<term>>,
                   filter_history   |-> <<pattern>>,
                   root_var         |-> root,
                   status_var       |-> StatusText("Searching"),
                   root_options     |-> << RootOption(root, root, "local", FALSE) >>,
                   search_text      |-> term,
                   current_root     |-> RootOption(root, root, "local", FALSE),
                   search_thread    |-> 1,
                   results_queue    |-> NewQueue(1),
                   cancel_requested |-> FALSE,
                   search_running   |-> TRUE,
                   poll_after       |-> 0,
                   matches          |-> <<>>,
                   tree_rows        |-> <<>>,
                   widgets          |-> WidgetsBusy ]
        /\ workers = [w \in WorkerIds |->
                        IF w = 1 THEN LaunchedWorker(root, pattern, term, match_case)
                        ELSE NoWorker]
        /\ nsearch = 1
        /\ timers = {}
        /\ main_pc = "poll0"
        /\ produced = [w \in WorkerIds |-> <<>>]
        /\ cancelled = {}
        /\ callback_error = FALSE

NextRunSearch == \E w \in WorkerIds : WorkerStep(w)

\* The thread runs to its end: the scheduler does not starve a runnable thread.
SpecRunSearch == InitRunSearch /\ [][NextRunSearch]_vars /\ WF_vars(NextRunSearch)

(***************************************************************************)
(* Properties.                                                             *)
(***************************************************************************)
\* The kinds of a sequence of messages.
Kinds(msgs) == [i \in 1 .. Len(msgs) |-> msgs[i].kind]

HasKind(msgs, kind) == \E i \in 1 .. Len(msgs) : msgs[i].kind = kind

\* Number of entries of seq that thread w produced.
CountBy(seq, w) == Cardinality({ i \in 1 .. Len(seq) : seq[i].by = w })

\* The session is Idle: not running, input controls enabled.
Idle == ~dlg.search_running /\ dlg.widgets = WidgetsIdle

\* The match messages among msgs, as the SearchMatch records _add_match stores.
RECURSIVE MatchesOf(_)
MatchesOf(msgs) ==
    IF msgs = <<>> THEN <<>>
    ELSE (IF Head(msgs).kind = "match"
          THEN << [path |-> Head(msgs).path, lineno |-> Head(msgs).lineno,
                   col |-> Head(msgs).col, line |-> Head(msgs).line,
                   by |-> Head(msgs).by] >>
          ELSE <<>>) \o MatchesOf(Tail(msgs))

IsPrefix(a, b) == Len(a) <= Len(b) /\ SubSeq(b, 1, Len(a)) = a

\* C1: in every reachable state at most one search thread that was started has
\* not yet ended (checked under SpecRestart, where a start can follow a cancel).
C1_AtMostOneActiveWorker == Cardinality({ w \in WorkerIds : IsAlive(w) }) <= 1

\* C2: once cancel has set the cancellation flag, the session reaches Idle with
\* the "Search cancelled" status, whether or not the worker thread ever takes
\* another step (checked under FairSpec: only the return of join is fair).
C2_CancelReachesIdle ==
    dlg.cancel_requested ~>
        (main_pc = "loop" /\ Idle /\ dlg.status_var = StatusText("Search cancelled"))

\* C2 witness: the cancel handler has returned, the session is Idle, and the
\* thread of the cancelled search is still running without having seen the flag.
C2_Witness ==
    /\ main_pc = "loop" /\ Idle
    /\ dlg.status_var = StatusText("Search cancelled")
    /\ \E w \in cancelled : IsAlive(w) /\ ~workers[w].saw_cancel

\* C3: the cancellation flag, once set for a search, stays set for as long as
\* the thread of that search is alive.
C3_TokenWrittenOnce == \A w \in cancelled : IsAlive(w) => dlg.cancel_requested

\* C4: every message in the channel of the running search was put by the thread
\* that the same start launched.
C4_ChannelHasOnlyOwnMessages ==
    \A i \in 1 .. Len(dlg.results_queue.items) :
        dlg.results_queue.items[i].by = dlg.results_queue.owner

\* C5: when the cancel handler returns the session is Idle with the cancellation
\* status, and from then on no match produced by the thread of a cancelled
\* search is appended to the match list.
C5_NoMatchFromCancelledWorker ==
    [][ /\ (main_pc = "final" /\ main_pc' = "loop")
            => (~dlg'.search_running
                /\ dlg'.status_var = StatusText("Search cancelled"))
        /\ \A w \in cancelled : CountBy(dlg'.matches, w) <= CountBy(dlg.matches, w)
      ]_vars

\* C6: a step that changes the status text to a summary text is taken while the
\* session is running, and the summary is not one produced by the thread of a
\* search that was cancelled.
C6_SummaryOfCancelledNeverShown ==
    [][ (dlg'.status_var # dlg.status_var /\ dlg'.status_var.by # 0)
            => (dlg.search_running /\ dlg'.status_var.by \notin cancelled) ]_vars

\* C7: the thread of a search that was not cancelled, once ended, has put its
\* done message.
C7_UncancelledWorkerSignalsDone ==
    \A w \in WorkerIds :
        (workers[w].pc = "dead" /\ w \notin cancelled) => HasKind(produced[w], "done")

\* C8: a thread whose traversal ended (line 504 reached) and that has ended has
\* put zero or more match messages, then exactly one summary, then exactly one
\* done.
C8_MatchesThenSummaryThenDone ==
    \A w \in WorkerIds :
        (workers[w].pc = "dead" /\ workers[w].ended) =>
            LET k == Kinds(produced[w]) IN
            /\ Len(k) >= 2
            /\ k[Len(k)] = "done"
            /\ k[Len(k) - 1] = "summary"
            /\ \A i \in 1 .. Len(k) - 2 : k[i] = "match"

\* C9: a thread that left the traversal after reading the cancellation flag as
\* set has, once past lines 504-505, put a summary with its counts, and no
\* exception has left _run_search.
C9_CancelledWorkerEmitsSummary ==
    \A w \in WorkerIds :
        (workers[w].saw_cancel /\ workers[w].ended
            /\ workers[w].pc \in {"fin_chk", "fin_put", "dead"}) =>
            /\ ~workers[w].raised
            /\ \E i \in 1 .. Len(produced[w]) :
                  /\ produced[w][i].kind = "summary"
                  /\ produced[w][i].files = workers[w].total_files
                  /\ produced[w][i].matches = workers[w].total_matches

\* C10: while a search is running, the match list is a prefix of the match
\* messages that the thread of this search has put, in the same order.
C10_MatchListIsPrefixOfProduced ==
    dlg.results_queue.open =>
        IsPrefix(dlg.matches, MatchesOf(produced[dlg.results_queue.owner]))

\* C11: a _start_search call made while a search is running changes nothing: no
\* thread is started, the queue, the match list, both histories, the status text
\* and the cancel flag stay as they are.
C11_StartWhileRunningIsNoOp ==
    [][ \A term \in Terms, filter \in Filters, match_case \in BOOLEAN :
          (dlg.search_running /\ StartSearch(term, filter, match_case))
              => UNCHANGED <<dlg, workers, nsearch, budget, timers, produced>> ]_vars

\* C11 witness: a search is running with matches listed and messages queued, the
\* main thread is in the event loop, and <Return> in the search box (which calls
\* _start_search) can be handled.
C11_Witness ==
    /\ dlg.search_running /\ main_pc = "loop"
    /\ dlg.matches # <<>> /\ dlg.results_queue.items # <<>>
    /\ dlg.search_history # <<>>
    /\ ENABLED OnReturnKey(<<"a">>, <<>>, FALSE)

\* The status texts of the four validation failures.
ValidationMessages ==
    { "Select a valid root folder.",
      "Searching remote files is not supported for this backend.",
      "Enter search text",
      "The selected root folder does not exist." }

\* The option selected in the root combobox.
SelectedRoot == LookupRoot(dlg.root_options, dlg.root_var)

\* C12: a step that sets the status to a validation message is taken in an idle
\* session and changes nothing but the status text (no thread, no queue, same
\* match list, same histories); and a step that starts a thread is taken with a
\* selected option that is in the option set, is not a non-walkable remote root
\* and exists, and with a term that is not empty after trimming.
C12_FailedValidationOnlySetsStatus ==
    [][ /\ (dlg'.status_var # dlg.status_var /\ dlg'.status_var.msg \in ValidationMessages)
            => /\ ~dlg.search_running
               /\ dlg' = [dlg EXCEPT !.status_var = dlg'.status_var]
               /\ UNCHANGED <<workers, nsearch, budget, timers, main_pc, produced>>
        /\ nsearch' # nsearch
            => /\ dlg.root_var # "" /\ HasLabel(dlg.root_options, dlg.root_var)
               /\ ~(SelectedRoot.kind = "remote" /\ ~SelectedRoot.uses_local_filesystem)
               /\ Exists(SelectedRoot.path)
               /\ dlg'.search_text # <<>>
      ]_vars

\* C12 witness: after a search that listed a match, a start with a root that
\* does not exist was rejected; the match list and the history are still there.
C12_Witness ==
    /\ dlg.status_var = StatusText("The selected root folder does not exist.")
    /\ Idle /\ ~dlg.results_queue.open
    /\ dlg.matches # <<>> /\ dlg.search_history # <<>>

\* C13: every thread that was started has a needle of length at least 1.
C13_NoWorkerWithEmptyNeedle ==
    \A w \in WorkerIds : workers[w].pc # "none" => Len(Needle(workers[w])) >= 1

\* C13 witness: a start with a blank term was rejected after an earlier search
\* with a proper term: the only thread ever started is the one of that search.
C13_Witness ==
    /\ dlg.status_var = StatusText("Enter search text")
    /\ Idle /\ nsearch = 1
    /\ Len(Needle(workers[1])) = 1
    /\ \A w \in WorkerIds \ {1} : workers[w].pc = "none"

\* C14: an option whose label differs from its path (those _create_remote_option
\* builds) has kind "local" exactly when the backend uses the local file system,
\* else kind "remote"; and while a remote option of a backend without local file
\* system is selected in an idle session, no step starts a search.
C14_RemoteRootDisplayedNotSearched ==
    [][ /\ \A i \in 1 .. Len(dlg'.root_options) :
              LET o == dlg'.root_options[i] IN
              o.label # o.path =>
                  o.kind = (IF o.uses_local_filesystem THEN "local" ELSE "remote")
        /\ (~dlg.search_running /\ SelectedRoot.kind = "remote"
                /\ ~SelectedRoot.uses_local_filesystem)
            => (~dlg'.search_running /\ nsearch' = nsearch
                  /\ dlg'.results_queue = dlg.results_queue)
      ]_vars

\* C14 witness: the remote option of a backend without local file system is in
\* the option set and selected, and a start with it was rejected.
C14_Witness ==
    /\ SelectedRoot.kind = "remote" /\ ~SelectedRoot.uses_local_filesystem
    /\ SelectedRoot.path = "/r"
    /\ dlg.status_var = StatusText("Searching remote files is not supported for this backend.")
    /\ Idle /\ nsearch = 0

\* C15: a step that starts a thread is taken in an idle session; after it the
\* term the user typed, without its leading and trailing whitespace, is at the
\* front of the term history and the glob at the front of the filter history,
\* the match list and its rows are empty whatever an earlier search left in
\* them, the session is running with the cancel flag unset, exactly one thread
\* has been started, and the queue is a new, empty one belonging to that thread.
C15_StartEffects ==
    [][ /\ nsearch' # nsearch =>
              LET w == nsearch' IN
              /\ ~dlg.search_running /\ main_pc = "loop"
              /\ nsearch' = nsearch + 1
              /\ workers[w].pc = "none" /\ workers'[w].pc # "none"
              /\ \A v \in WorkerIds \ {w} : workers'[v] = workers[v]
              /\ dlg'.search_text # <<>>
              /\ workers'[w].search_text = dlg'.search_text
              /\ dlg'.search_history # <<>> /\ dlg'.search_history[1] = dlg'.search_text
              /\ dlg'.filter_history # <<>> /\ dlg'.filter_history[1] = workers'[w].pattern
              /\ dlg'.matches = <<>> /\ dlg'.tree_rows = <<>>
              /\ dlg'.search_running /\ ~dlg'.cancel_requested
              /\ dlg'.results_queue = NewQueue(w)
              /\ dlg'.search_thread = w
        /\ \A term \in Terms, filter \in Filters :
              ((OnSearchButtonClick(term, filter, FALSE) \/ OnReturnKey(term, filter, FALSE))
                 /\ nsearch' # nsearch)
              => \E i, j \in 1 .. Len(term) :
                    /\ dlg'.search_text = SubSeq(term, i, j)
                    /\ ~IsSpace(term[i]) /\ ~IsSpace(term[j])
                    /\ \A k \in 1 .. Len(term) : (k < i \/ k > j) => IsSpace(term[k])
      ]_vars

\* C15 witness: a second search has just been started (its first _poll_queue is
\* still to come) after the first one ran to its end and was finalized by its
\* done message, which followed its match into the match list: the list is
\* empty again, the histories are recorded and the queue is new and empty.
C15_Witness ==
    /\ main_pc = "poll0" /\ nsearch = 2 /\ cancelled = {}
    /\ dlg.search_running /\ ~dlg.cancel_requested
    /\ produced[1] = << MatchMsg(1, "/p/a.t", 1, 0, <<"a">>), SummaryMsg(1, 1, 1), DoneMsg(1) >>
    /\ dlg.search_history = << <<"a">> >> /\ dlg.filter_history = << <<"*">> >>
    /\ dlg.matches = <<>> /\ dlg.tree_rows = <<>>
    /\ dlg.results_queue = NewQueue(2)
    /\ IsAlive(2)

\* The text the status shows for a summary message.
SummaryText(m) ==
    IF m.matches # 0 THEN FoundText(m.matches, m.files, m.by) ELSE NoMatchesText(m.by)

\* C16: once a search has been finalized (the session is idle again after a
\* search), the input controls are enabled and the status is final: the
\* cancellation message when the search was cancelled, else the text of the
\* summary its thread produced ("No matches found" when it counted no match);
\* it is never "Searching".
C16_FinalStatusAfterFinalization ==
    (nsearch > 0 /\ ~dlg.search_running /\ main_pc = "loop"
        /\ dlg.status_var.msg \notin ValidationMessages) =>
        /\ dlg.widgets = WidgetsIdle
        /\ dlg.status_var.msg # "Searching"
        /\ IF nsearch \in cancelled
           THEN dlg.status_var = StatusText("Search cancelled")
           ELSE \E i \in 1 .. Len(produced[nsearch]) :
                   /\ produced[nsearch][i].kind = "summary"
                   /\ dlg.status_var = SummaryText(produced[nsearch][i])

\* Item i of tree has an ignored name or lies below a directory with one (the
\* root, item 1, is not an entry of the walk).
UnderIgnoredName(tree, i) ==
    \E j \in 2 .. i :
        /\ tree[j].name \in IGNORED_FILES_AND_DIRS
        /\ j = i \/ (tree[j].kind = "dir" /\ i < tree[j].end)

\* All positions at which term occurs as a substring of a line of a file below
\* root whose base name matches pattern and that is not under an ignored name.
Occurrences(root, pattern, term, match_case) ==
    LET tree   == Tree(root)
        needle == IF match_case THEN term ELSE Lower(term)
        files  == { i \in 1 .. Len(tree) :
                      /\ tree[i].kind = "file"
                      /\ Fnmatch(tree[i].name, pattern)
                      /\ ~UnderIgnoredName(tree, i) }
    IN  UNION { UNION { { <<tree[i].path, l, c>> :
                            c \in { k \in 0 .. Len(SplitLines(tree[i].text, <<>>)[l])
                                                   - Len(needle) :
                                      LET line == SplitLines(tree[i].text, <<>>)[l]
                                          hay  == IF match_case THEN line ELSE Lower(line)
                                      IN  SubSeq(hay, k + 1, k + Len(needle)) = needle } } :
                        l \in 1 .. Len(SplitLines(tree[i].text, <<>>)) } :
                i \in files }

\* The (file, line number, offset) triples of the matches thread w has put.
Emitted(w) ==
    { <<produced[w][i].path, produced[w][i].lineno, produced[w][i].col>> :
        i \in { k \in 1 .. Len(produced[w]) : produced[w][k].kind = "match" } }

\* C20: when the thread of a search that was not cancelled has ended, the triples
\* it emitted are exactly the positions at which the term occurs in the lines of
\* the files that match the glob and are not under an ignored name.
C20_EmittedEqualsOccurrences ==
    \A w \in WorkerIds :
        (workers[w].pc = "dead" /\ w \notin cancelled) =>
            Emitted(w) = Occurrences(workers[w].root, workers[w].pattern,
                                     workers[w].search_text, workers[w].match_case)

\* C17: a _cancel_search call made while no search is running (destroy makes it)
\* has left the status text, the match list, the running flag and the cancel
\* flag as they were when it returns; a call made while a search is running
\* sets the cancel flag, and when the call returns the session is no longer
\* running.  (Inside _finalize_search the queue is still there before line 582
\* exactly when a search was running at the call.)
C17_CancelWhenIdleIsNoOp ==
    [][ /\ (main_pc \in {"join", "djoin"} /\ ~dlg.search_running
               /\ main_pc' \in {"final", "dfinal"})
            => /\ dlg'.status_var = dlg.status_var
               /\ dlg'.matches = dlg.matches
               /\ ~dlg'.search_running /\ ~dlg'.cancel_requested
        /\ (main_pc \in {"final", "dfinal"} /\ ~dlg.results_queue.open
               /\ main_pc' \in {"loop", "gone"})
            => /\ dlg'.status_var = dlg.status_var
               /\ dlg'.matches = dlg.matches
               /\ ~dlg'.search_running /\ ~dlg'.cancel_requested
        /\ (main_pc = "loop" /\ dlg.search_running /\ main_pc' \in {"join", "djoin"})
            => dlg'.cancel_requested
        /\ (main_pc \in {"final", "dfinal"} /\ main_pc' \in {"loop", "gone"})
            => ~dlg'.search_running
      ]_vars

\* C18: whatever list the history starts as, after each _add_to_history call
\* that inserts (its value is not blank) the list has at most MAX_HISTORY entries
\* and the trimmed value is at index 0; a call with a blank value inserts
\* nothing and leaves the list as it was, so that the value inserted last stays
\* at index 0.
C18_LengthBoundedAfterInsertion ==
    [][ IF Strip(added') = <<>>
        THEN dlg'.search_history = dlg.search_history
        ELSE /\ Len(dlg'.search_history) <= MAX_HISTORY
             /\ dlg'.search_history[1] = Strip(added')
      ]_vars

\* C18 witness: a value that was in no initial list has been inserted and the
\* list is at its capacity.
C18_Witness ==
    /\ added = HistoryValue(25)
    /\ Len(dlg.search_history) = MAX_HISTORY
    /\ dlg.search_history[1] = HistoryValue(25)
    /\ dlg.search_history[MAX_HISTORY] = HistoryValue(MAX_HISTORY - 1)

\* No value occurs twice in s.
IsUnique(s) == \A i, j \in 1 .. Len(s) : s[i] = s[j] => i = j

RECURSIVE Without(_, _)
\* s without the entries equal to v.
Without(s, v) ==
    IF s = <<>> THEN <<>>
    ELSE (IF Head(s) = v THEN <<>> ELSE <<Head(s)>>) \o Without(Tail(s), v)

\* C19: the history loaded from the store has no value twice, and neither has
\* it after any insertion; inserting a value that is present puts it at index 0,
\* leaves the length unchanged and keeps the order of the other entries.
C19_HistoryUniqueByValue ==
    [][ LET v == Strip(added') IN
        /\ IsUnique(dlg.search_history)
        /\ IsUnique(dlg'.search_history)
        /\ Contains(dlg.search_history, v)
            => /\ dlg'.search_history[1] = v
               /\ Len(dlg'.search_history) = Len(dlg.search_history)
               /\ Without(dlg'.search_history, v) = Without(dlg.search_history, v)
      ]_vars

RECURSIVE LineMatches(_, _, _, _, _, _)
\* The match messages the loop of lines 482-500 puts for one line when nothing
\* interferes: one for each index find returns, resuming after the match.
LineMatches(w, path, lineno, line, wk, start) ==
    LET index == Find(Haystack(wk, line), Needle(wk), start) IN
    IF index = -1 THEN <<>>
    ELSE << MatchMsg(w, path, lineno, index, line) >>
         \o LineMatches(w, path, lineno, line, wk,
                        index + (IF Len(Needle(wk)) > 1 THEN Len(Needle(wk)) ELSE 1))

RECURSIVE FileMatches(_, _, _, _, _)
\* The match messages for the lines of one file from line number lineno on.
FileMatches(w, path, lines, wk, lineno) ==
    IF lineno > Len(lines) THEN <<>>
    ELSE LineMatches(w, path, lineno, lines[lineno], wk, 0)
         \o FileMatches(w, path, lines, wk, lineno + 1)

RECURSIVE SearchAloneFrom(_, _, _, _, _)
\* What thread w puts from item p of its tree on when it runs alone and is not
\* cancelled: files counts the files read so far, out holds the matches so far.
SearchAloneFrom(w, wk, p, files, out) ==
    LET tree == Tree(wk.root)
        q    == NextStop(tree, wk.pattern, p)
    IN  IF q > Len(tree)
        THEN out \o << SummaryMsg(w, files, Len(out)), DoneMsg(w) >>
        ELSE LET it == tree[q] IN
             IF it.staterr THEN out \o << DoneMsg(w) >>
             ELSE IF it.kind = "dir"
             THEN SearchAloneFrom(w, wk, IF it.listable THEN q + 1 ELSE it.end, files, out)
             ELSE IF ~ReadText(it).ok
             THEN SearchAloneFrom(w, wk, q + 1, files, out)
             ELSE SearchAloneFrom(w, wk, q + 1, files + 1,
                     out \o FileMatches(w, it.path, SplitLines(ReadText(it).text, <<>>), wk, 1))

\* The messages of a whole search with the inputs of thread w, run alone.
SearchAlone(w) == SearchAloneFrom(w, workers[w], 1, 0, <<>>)

\* C21: the messages put by the thread of a search that was not cancelled and
\* has ended are determined by its root, glob, term and case flag (the tree
\* being fixed): they are the matches, summary and done of that search run
\* alone, so that two such runs put the same matches and the same summary.
C21_SameSearchSameMessages ==
    \A w \in WorkerIds :
        (workers[w].pc = "dead" /\ w \notin cancelled) => produced[w] = SearchAlone(w)

\* C22: a step that counts a match does so at the first index, not before
\* start, where the term occurs in the line, both lowercased when case
\* sensitivity is off and both as they are when it is on; a step that leaves a
\* line without the flag set finds no such index.  In the tree /c (a.t "a b",
\* b.t "A") a traversal for "a" with glob "*" that ended without cancellation
\* counted 2 files, and 2 matches with case sensitivity off, 1 with it on.
C22_CaseFoldedMatching ==
    [][ \A w \in WorkerIds :
          LET wk   == workers[w]
              wk2  == workers'[w]
              line == LinesOf(wk)[wk.lineno]
              hay  == IF wk.match_case THEN line ELSE Lower(line)
              term == IF wk.match_case THEN wk.search_text ELSE Lower(wk.search_text)
              At(k) == k + Len(term) <= Len(hay) /\ SubSeq(hay, k + 1, k + Len(term)) = term
          IN
          /\ (wk.pc = "scan" /\ wk2.pc = "chk")
                => /\ wk2.index >= wk.start /\ At(wk2.index)
                   /\ \A k \in wk.start .. wk2.index - 1 : ~At(k)
                   /\ wk2.total_matches = wk.total_matches + 1
          /\ (wk.pc = "scan" /\ wk2.pc = "after" /\ ~dlg.cancel_requested)
                => \A k \in wk.start .. Len(hay) : ~At(k)
          /\ (wk2.root = "/c" /\ wk2.pattern = <<"*">> /\ wk2.search_text = <<"a">>
                /\ wk2.ended /\ ~wk2.saw_cancel)
                => /\ wk2.total_files = 2
                   /\ wk2.total_matches = (IF wk2.match_case THEN 1 ELSE 2)
      ]_vars

\* C22 witness: a case-insensitive search for "a" in /c has ended: it put one
\* match for a.t ("a b"), one for b.t ("A"), the summary (2 files, 2 matches)
\* and done.
C22_Witness ==
    \E w \in WorkerIds :
        /\ workers[w].pc = "dead" /\ ~workers[w].match_case
        /\ workers[w].root = "/c" /\ workers[w].search_text = <<"a">>
        /\ produced[w] = << MatchMsg(w, "/c/a.t", 1, 0, <<"a", " ", "b">>),
                            MatchMsg(w, "/c/b.t", 1, 0, <<"A">>),
                            SummaryMsg(w, 2, 2), DoneMsg(w) >>

\* The files of tree that are not under an ignored name and match pattern.
VisibleFiles(tree, pattern) ==
    { i \in 1 .. Len(tree) :
        tree[i].kind = "file" /\ ~UnderIgnoredName(tree, i) /\ Fnmatch(tree[i].name, pattern) }

\* C23: a search thread is never positioned at an entry that has a name of the
\* ignore set or lies below a directory with such a name (so it neither lists
\* nor reads it), it counts no more files than those outside such entries, and
\* no match message it puts names a file under such an entry.
C23_IgnoredNamesNeverVisited ==
    \A w \in WorkerIds :
        LET wk   == workers[w]
            tree == Tree(wk.root)
        IN  /\ wk.pos > 0 => ~UnderIgnoredName(tree, wk.pos)
            /\ wk.total_files <= Cardinality(VisibleFiles(tree, wk.pattern))
            /\ \A i \in 1 .. Len(produced[w]) :
                  produced[w][i].kind = "match" =>
                      \E j \in VisibleFiles(tree, wk.pattern) :
                          tree[j].path = produced[w][i].path

\* C23 witness: a search of /s with glob "*" has ended without cancellation;
\* /s/.g/c.t holds the term, yet only d.x and f.t were read and matched.
C23_Witness ==
    \E w \in WorkerIds :
        /\ workers[w].pc = "dead" /\ workers[w].ended /\ ~workers[w].saw_cancel
        /\ workers[w].root = "/s" /\ workers[w].pattern = <<"*">>
        /\ workers[w].search_text = <<"a">>
        /\ workers[w].total_files = 2
        /\ HasKind(produced[w], "match")
        /\ Find(FileSystem["/s"][3].text, <<"a">>, 0) = 0

\* A step is a refresh of the root options with what the workbench reports.
IsRefresh(local_dir, remote_dir, uses_local_fs) ==
    \/ InitRefresh(local_dir, remote_dir, uses_local_fs)
    \/ RefreshRootOptions(local_dir, remote_dir, uses_local_fs)

\* C24: after every refresh of the root options, when the label selected
\* before it is present in the rebuilt option set (the options the sources
\* give at that moment: active local directory, remote option, or the working
\* directory when both are missing, together with the directory last chosen
\* through the picker), it is still selected; otherwise the first label of the
\* rebuilt option set is selected.
C24_SelectionKeptOrFirst ==
    [][ \A local_dir \in ActiveLocalDirs, remote_dir \in RemoteDirs, uses_local_fs \in BOOLEAN :
            IsRefresh(local_dir, remote_dir, uses_local_fs) =>
                LET rebuilt == BuildOptions(local_dir, remote_dir, uses_local_fs)
                    present == \/ HasLabel(rebuilt, dlg.root_var)
                               \/ (picked # "" /\ dlg.root_var = picked)
                IN  IF present
                    THEN dlg'.root_var = dlg.root_var
                    ELSE dlg'.root_var = rebuilt[1].label
      ]_vars

\* C25: the directory last chosen through the picker is a label of the option
\* set, with a local option for that directory, after any refreshes and
\* selections made since it was chosen.
C25_PickedRootRetained ==
    picked # "" =>
        /\ HasLabel(dlg.root_options, picked)
        /\ LookupRoot(dlg.root_options, picked) = RootOption(picked, picked, "local", FALSE)

\* C26: the option set a refresh leaves is not empty; when neither the active
\* local directory nor the remote directory yields a root its first option is
\* the local option of the current working directory, and when a source yields
\* one the working directory is an option only if it was the selected option
\* before (which a refresh keeps); the local option comes first and, when both
\* yield one, the remote option second.
C26_OptionsNeverEmpty ==
    [][ \A local_dir \in ActiveLocalDirs, remote_dir \in RemoteDirs, uses_local_fs \in BOOLEAN :
          IsRefresh(local_dir, remote_dir, uses_local_fs) =>
            LET final == dlg'.root_options
                local == RootOption(local_dir, local_dir, "local", FALSE)
            IN
            /\ final # <<>>
            /\ (local_dir = "" /\ remote_dir = "")
                  => final[1] = RootOption(Cwd, Cwd, "local", FALSE)
            /\ (local_dir # "" \/ remote_dir # "")
                  => (HasLabel(final, Cwd) => dlg.root_var = Cwd)
            /\ local_dir # "" => final[1] = local
            /\ (local_dir = "" /\ remote_dir # "")
                  => (final[1].path = remote_dir /\ final[1].label = "Remote: " \o remote_dir)
            /\ (local_dir # "" /\ remote_dir # "")
                  => /\ Len(final) >= 2
                     /\ final[2].path = remote_dir
                     /\ final[2].label = "Remote: " \o remote_dir
      ]_vars

\* C26 witness: a refresh found neither an active local directory nor a remote
\* directory: the option set is the working directory alone, and it is selected.
C26_Witness ==
    /\ main_pc = "loop"
    /\ dlg.root_options = << RootOption(Cwd, Cwd, "local", FALSE) >>
    /\ dlg.root_var = Cwd

\* C27: after every step there are as many rows as stored matches; a row with
\* iid str(N) exists exactly when 0 <= N < the number of matches; selecting the
\* row of the N-th match makes _get_selected_match return that match, which
\* has the path, line number, column and line of a message a search thread
\* put; between two starts matches are only appended, and a start empties both.
C27_RowsCorrespondToMatches ==
    [][ LET matches == dlg'.matches
            rows    == dlg'.tree_rows
        IN
        /\ Len(rows) = Len(matches)
        /\ \A n \in 0 .. Len(matches) + 1 :
              (\E i \in 1 .. Len(rows) : rows[i].iid = Str(n)) <=> n < Len(matches)
        /\ \A i \in 1 .. Len(rows) :
              /\ ParseInt(rows[i].iid) = i - 1
              /\ GetSelectedMatch(dlg', << rows[i].iid >>) = matches[i]
              /\ rows[i].lineno = matches[i].lineno
              /\ \E j \in 1 .. Len(produced'[matches[i].by]) :
                    LET msg == produced'[matches[i].by][j] IN
                    /\ msg.kind = "match"
                    /\ matches[i] = [path |-> msg.path, lineno |-> msg.lineno,
                                     col |-> msg.col, line |-> msg.line, by |-> msg.by]
        /\ GetSelectedMatch(dlg', << Str(Len(matches)) >>) = NoMatch
        /\ GetSelectedMatch(dlg', <<>>) = NoMatch
        /\ nsearch' = nsearch => IsPrefix(dlg.matches, matches)
        /\ nsearch' # nsearch => matches = <<>>
      ]_vars

\* C27 witness: at least three matches of a search in /s are listed; the third
\* row has the iid "2" and selecting it returns the third match, one in f.t.
C27_Witness ==
    /\ Len(dlg.matches) >= 3
    /\ dlg.tree_rows[3].iid = << "2" >>
    /\ GetSelectedMatch(dlg, << dlg.tree_rows[3].iid >>) = dlg.matches[3]
    /\ dlg.matches[3].path = "/s/f.t"
    /\ dlg.matches[3].col # dlg.matches[2].col

\* _read_text returns None for the file: it cannot be opened or read
\* (permission denied, I/O failure), so tokenize.open and the fallback both
\* raise.  Content with a byte that does not decode is not meant: the fallback
\* decodes it with those bytes dropped (an entry whose stat fails is not meant
\* either: the walker never yields it).
FailsToRead(it) == it.kind = "file" /\ ~it.staterr /\ ~it.readable

\* C28: a file whose read fails is not counted and yields no match message, and
\* when no search of the run was cancelled, the thread of a search over a tree
\* with such a file goes on with the next candidate files (every other
\* candidate is counted) and ends with the summary and done.
C28_FailedFileSkipped ==
    \A w \in WorkerIds :
        LET wk      == workers[w]
            tree    == Tree(wk.root)
            visible == VisibleFiles(tree, wk.pattern)
            read    == { i \in visible : ~FailsToRead(tree[i]) }
        IN  /\ wk.total_files <= Cardinality(read)
            /\ \A i \in 1 .. Len(produced[w]) :
                  produced[w][i].kind = "match" =>
                      \A j \in 1 .. Len(tree) :
                          tree[j].path = produced[w][i].path => ~FailsToRead(tree[j])
            /\ (wk.pc = "dead" /\ cancelled = {}
                    /\ \E j \in visible : FailsToRead(tree[j]))
                  => LET k == Kinds(produced[w]) IN
                     /\ wk.total_files = Cardinality(read)
                     /\ Len(k) >= 2
                     /\ k[Len(k) - 1] = "summary" /\ k[Len(k)] = "done"
                     /\ produced[w][Len(k) - 1].files = Cardinality(read)

\* C28 witness: the uncancelled search of /u for "a" has ended: k.t, which
\* cannot be opened, was skipped, m.t and n.t after it were read and matched,
\* and the thread put the summary (2 files, 2 matches) and done.
C28_Witness ==
    /\ workers[1].pc = "dead" /\ workers[1].root = "/u" /\ 1 \notin cancelled
    /\ ~workers[1].raised
    /\ FailsToRead(Tree("/u")[2])
    /\ Len(produced[1]) = 4
    /\ produced[1][1].kind = "match" /\ produced[1][1].path = "/u/m.t"
    /\ produced[1][2].kind = "match" /\ produced[1][2].path = "/u/n.t"
    /\ produced[1][3] = SummaryMsg(1, 2, 2)
    /\ produced[1][4] = DoneMsg(1)

\* saved holds the non-empty values of history, each once, in the order of
\* their first occurrence, up to MAX_HISTORY of them.
IsSavedFormOf(saved, history) ==
    LET firsts == { i \in 1 .. Len(history) :
                      /\ history[i] # <<>>
                      /\ \A j \in 1 .. i - 1 : history[j] # history[i] }
    IN  /\ Len(saved) = (IF Cardinality(firsts) < MAX_HISTORY
                         THEN Cardinality(firsts) ELSE MAX_HISTORY)
        /\ \A k \in 1 .. Len(saved) :
              \E i \in firsts :
                  /\ history[i] = saved[k]
                  /\ Cardinality({ j \in firsts : j < i }) = k - 1

\* C29: the option store is written only by destroy; when destroy has run, no
\* search is running, no poll callback is pending, and the store holds under
\* recent_terms the term history and under recent_filters the filter history,
\* each as a list without an empty string, without a repeated value, of at most
\* MAX_HISTORY entries, in the order of the history (the term and the glob of
\* the last search first).
C29_HistoriesSavedOnDestroy ==
    [][ /\ wb' # wb => (main_pc # "gone" /\ main_pc' = "gone")
        /\ (main_pc # "gone" /\ main_pc' = "gone") =>
              LET terms   == wb'.recent_terms
                  filters == wb'.recent_filters
              IN
              /\ ~dlg'.search_running /\ dlg'.poll_after = 0 /\ timers' = {}
              /\ terms.list /\ filters.list
              /\ \A i \in 1 .. Len(terms.items) : terms.items[i] # <<>>
              /\ \A i \in 1 .. Len(filters.items) : filters.items[i] # <<>>
              /\ IsUnique(terms.items) /\ IsUnique(filters.items)
              /\ Len(terms.items) <= MAX_HISTORY /\ Len(filters.items) <= MAX_HISTORY
              /\ IsSavedFormOf(terms.items, dlg.search_history)
              /\ IsSavedFormOf(filters.items, dlg.filter_history)
              /\ nsearch > 0 => /\ terms.items[1] = dlg.search_text
                                /\ filters.items[1] = workers[nsearch].pattern
      ]_vars

\* C29 witness: the dialog was closed while a search was running (destroy
\* cancelled it); the store holds MAX_HISTORY terms with the term of that search
\* first, and one filter although the loaded filter list held a value twice.
C29_Witness ==
    /\ main_pc = "gone" /\ nsearch = 1 /\ 1 \in cancelled
    /\ Len(wb.recent_terms.items) = MAX_HISTORY
    /\ wb.recent_terms.items[1] = <<"a">>
    /\ wb.recent_terms.items[2] = HistoryValue(1)
    /\ wb.recent_filters.items = << <<"*">>, <<"*", ".", "t">> >>

\* C30: a tick of _poll_queue that starts with a queue leaves none of the
\* messages that were queued when it started in the channel, and has appended
\* every match among them to the match list, in order.
C30_TickDrainsAllQueued ==
    [][ ((PollStart \/ \E k \in WorkerIds : PollTimer(k)) /\ dlg.results_queue.open)
            => /\ dlg'.results_queue.items = <<>>
               /\ dlg'.matches = dlg.matches \o MatchesOf(dlg.results_queue.items)
      ]_vars

\* A step is a tick of _poll_queue (the call of line 448 or a timer callback)
\* that takes a done message from the queue.
TickTakesDone ==
    /\ PollStart \/ \E k \in WorkerIds : PollTimer(k)
    /\ dlg.results_queue.open
    /\ HasKind(dlg.results_queue.items, "done")

\* C31: when a tick of _poll_queue has processed a done message, no poll timer
\* is pending: the tick schedules none, and none is left from before.
C31_NoTimerAfterDone ==
    [][ TickTakesDone => timers' = {} ]_vars

\* C32: a tick of _poll_queue that takes a done message returns normally (no
\* exception leaves the callback) and ends with _poll_after cleared.
C32_DoneTickCompletesNormally ==
    [][ TickTakesDone => ~callback_error' /\ dlg'.poll_after = 0 ]_vars

\* C33: at most one poll timer is pending, and it is the one recorded in
\* _poll_after.
C33_AtMostOnePendingTimer ==
    /\ Cardinality(timers) <= 1
    /\ timers # {} => timers = {dlg.poll_after}

\* C34: within one line the thread finds the leftmost-first non-overlapping
\* occurrences of the needle: the search of a line starts at offset 0, every
\* occurrence it reports is the first one at or after the current start, the
\* next start is that offset + max(len(needle), 1), a line is left only when no
\* occurrence is at or after the start, and the offsets of the match messages a
\* thread has put for one line are pairwise at least max(len(needle), 1) apart
\* in the order of emission (so strictly increasing).
C34_LeftmostNonOverlapping ==
    [][ \A w \in WorkerIds :
          LET wk   == workers[w]
              wk2  == workers'[w]
              line == LinesOf(wk)[wk.lineno]
              hay  == Haystack(wk, line)
              term == Needle(wk)
              step == IF Len(Needle(wk2)) >= 1 THEN Len(Needle(wk2)) ELSE 1
              At(k) == k + Len(term) <= Len(hay) /\ SubSeq(hay, k + 1, k + Len(term)) = term
              out  == produced'[w]
          IN
          /\ (wk.pc \in {"walk", "after"} /\ wk2.pc = "scan") => wk2.start = 0
          /\ (wk.pc = "scan" /\ wk2.pc = "chk")
                => /\ wk2.index >= wk.start /\ At(wk2.index)
                   /\ \A k \in wk.start .. wk2.index - 1 : ~At(k)
          /\ (wk.pc \in {"chk", "put"} /\ wk2.pc = "scan")
                => /\ wk2.start = wk.index + step
                   /\ wk2.start > wk.start
                   /\ wk2.lineno = wk.lineno /\ wk2.pos = wk.pos
          /\ (wk.pc = "scan" /\ wk2.pc = "after" /\ ~dlg.cancel_requested)
                => \A k \in wk.start .. Len(hay) : ~At(k)
          /\ (wk.pc = "put" /\ Len(out) > Len(produced[w]))
                => out[Len(out)].col = wk.index /\ out[Len(out)].lineno = wk.lineno
          /\ \A i, j \in 1 .. Len(out) :
                (i < j /\ out[i].kind = "match" /\ out[j].kind = "match"
                   /\ out[i].path = out[j].path /\ out[i].lineno = out[j].lineno)
                => out[i].col + step <= out[j].col
      ]_vars

\* C34 witness: searches of /s with glob "*.t" have ended; for the line "aaa" of
\* f.t the needle "aa" gave the single offset 0 (the occurrence at offset 1
\* overlaps it), and the needle "a" the offsets 0, 1, 2.
C34_Witness ==
    \E w \in WorkerIds :
        /\ workers[w].pc = "dead" /\ workers[w].search_text = <<"a", "a">>
        /\ workers[w].root = "/s" /\ workers[w].pattern = <<"*", ".", "t">>
        /\ produced[w] = << MatchMsg(w, "/s/f.t", 1, 0, <<"a", "a", "a">>),
                            SummaryMsg(w, 1, 1), DoneMsg(w) >>

\* C35: the occurrence loop of a line terminates for every line and every
\* needle, the empty one included: each iteration that finds an occurrence
\* moves start forward by at least 1, start never exceeds len(line) + 1 when a
\* find is made (so a line takes at most len(line) + 2 iterations), and the
\* thread reaches its end on every tree.
C35_OccurrenceLoopTerminates ==
    /\ [][ \A w \in WorkerIds :
             LET wk  == workers[w]
                 wk2 == workers'[w]
             IN
             /\ (wk.pc \in {"chk", "put"} /\ wk2.pc = "scan") => wk2.start >= wk.start + 1
             /\ wk2.pc = "scan" => wk2.start <= Len(LinesOf(wk2)[wk2.lineno]) + 1
       ]_vars
    /\ \A w \in WorkerIds : workers[w].pc # "none" ~> workers[w].pc = "dead"

\* C35 witness: with the empty needle the thread is at the find of iteration
\* len(line) + 2 of the line "aaa" (start = 4), having put matches at the
\* offsets 0, 1, 2 and 3.
C35_Witness ==
    \E w \in WorkerIds :
        /\ workers[w].pc = "scan" /\ workers[w].search_text = <<>>
        /\ LinesOf(workers[w])[workers[w].lineno] = <<"a", "a", "a">>
        /\ workers[w].start = 4
        /\ Len(produced[w]) >= 4 /\ produced[w][Len(produced[w])].col = 3

\* C36: cancellation is checked before each directory listing, before each file
\* read and before each occurrence search.  A step a thread takes while
\* _cancel_requested is set lists no directory (the walker does not enter the
\* directory it stands at), reads no file (the thread leaves the traversal with
\* its file count unchanged) and makes no occurrence search that finds a match;
\* a match message put while the flag is set is the one for the occurrence
\* found before the flag was read as set, and the steps from there lead to no
\* other put, so at most one further match message is enqueued.
C36_CancelCheckedAtEachCheckpoint ==
    [][ dlg.cancel_requested =>
          \A w \in WorkerIds :
             LET wk  == workers[w]
                 wk2 == workers'[w]
                 it  == Tree(wk.root)[wk.pos]
             IN
             /\ wk2.total_files = wk.total_files
             /\ (wk.pc = "walk" /\ wk2 # wk /\ ~it.staterr /\ it.kind = "dir")
                   => wk2.saw_cancel /\ (wk2.ended \/ wk2.pos >= it.end)
             /\ (wk.pc = "walk" /\ wk2 # wk /\ ~it.staterr /\ it.kind = "file")
                   => wk2.saw_cancel /\ wk2.ended /\ wk2.pc = "sum_chk"
             /\ (wk.pc = "scan" /\ wk2 # wk)
                   => /\ wk2.saw_cancel /\ wk2.pc = "after"
                      /\ wk2.total_matches = wk.total_matches
             /\ (wk.pc = "after" /\ wk2 # wk)
                   => wk2.saw_cancel /\ wk2.pc # "scan"
             /\ Len(MatchesOf(produced'[w])) > Len(MatchesOf(produced[w]))
                   => /\ wk.pc = "put" /\ wk2.pc = "scan"
                      /\ Len(MatchesOf(produced'[w])) = Len(MatchesOf(produced[w])) + 1
      ]_vars

\* C36 witness: while the flag is still set (the main thread is in join), the
\* thread searching /s with glob "*" has left the traversal at a checkpoint
\* after reading d.x only: f.t was not read.
C36_Witness ==
    \E w \in WorkerIds :
        /\ dlg.cancel_requested /\ main_pc = "join"
        /\ workers[w].root = "/s" /\ workers[w].pattern = <<"*">>
        /\ workers[w].saw_cancel /\ workers[w].ended
        /\ workers[w].total_files = 1
        /\ Len(MatchesOf(produced[w])) = 1

\* C37: the summary a thread emits agrees with what it emitted before: its
\* match count equals the number of match messages the thread put before the
\* summary, and its file count equals the number of candidate files the thread
\* read (files that matched the glob and whose text was obtained).
C37_SummaryConsistent ==
    \A w \in WorkerIds :
        \A i \in 1 .. Len(produced[w]) :
            produced[w][i].kind = "summary"
            => /\ produced[w][i].matches = Len(MatchesOf(SubSeq(produced[w], 1, i - 1)))
               /\ produced[w][i].files = workers[w].total_files
               /\ (~workers[w].saw_cancel /\ ~workers[w].raised)
                     => produced[w][i].files =
                          Cardinality({ k \in VisibleFiles(Tree(workers[w].root), workers[w].pattern) :
                                          ReadText(Tree(workers[w].root)[k]).ok })

\* C38: a file is a candidate exactly when its base name matches the glob; an
\* empty or whitespace-only filter is replaced by "*", under which every file
\* that is not ignored is a candidate; a root that is itself a file gives that
\* one file when its name matches the glob and nothing otherwise.  The thread
\* started for a filter carries the stripped filter, or "*" when nothing is
\* left; the file a thread is scanning is a candidate; a traversal that ended
\* without cancellation read every readable candidate (/s: d.x and f.t for
\* "*", f.t for "*.t"; the file /o.x: itself for "*", nothing for "*.t").
C38_CandidatesByBaseName ==
    [][ /\ \A term \in ScanTerms, filter \in ScanFilters, match_case \in BOOLEAN :
             ((OnSearchButtonClick(term, filter, match_case)
                  \/ OnReturnKey(term, filter, match_case))
               /\ nsearch' = nsearch + 1)
             => workers'[nsearch'].pattern =
                   (IF \A i \in 1 .. Len(filter) : IsSpace(filter[i])
                    THEN <<"*">> ELSE Strip(filter))
        /\ \A w \in WorkerIds :
             LET wk   == workers'[w]
                 tree == Tree(wk.root)
                 all  == { k \in 1 .. Len(tree) :
                             tree[k].kind = "file" /\ ~tree[k].staterr
                               /\ ~UnderIgnoredName(tree, k) }
             IN
             /\ wk.pc \in {"scan", "chk", "put", "after"}
                   => wk.pos \in VisibleFiles(tree, wk.pattern)
             /\ (wk.ended /\ ~wk.saw_cancel /\ ~wk.raised)
                   => /\ wk.total_files =
                           Cardinality({ k \in VisibleFiles(tree, wk.pattern) :
                                           ReadText(tree[k]).ok })
                      /\ wk.pattern = <<"*">>
                           => wk.total_files = Cardinality({ k \in all : ReadText(tree[k]).ok })
                      /\ (wk.root = "/s" /\ wk.pattern = <<"*">>) => wk.total_files = 2
                      /\ (wk.root = "/s" /\ wk.pattern = <<"*", ".", "t">>) => wk.total_files = 1
                      /\ (wk.root = "/o.x" /\ wk.pattern = <<"*">>) => wk.total_files = 1
                      /\ (wk.root = "/o.x" /\ wk.pattern = <<"*", ".", "t">>) => wk.total_files = 0
      ]_vars

\* C38 witness: the root /o.x is a file; the search for "a" with an empty or
\* blank filter (glob "*") has ended and reported the match in that file.
C38_Witness ==
    \E w \in WorkerIds :
        /\ workers[w].pc = "dead" /\ workers[w].root = "/o.x"
        /\ dlg.filter_history = << <<"*">> >>
        /\ produced[w] = << MatchMsg(w, "/o.x", 1, 0, <<"a">>),
                            SummaryMsg(w, 1, 1), DoneMsg(w) >>

\* C39: the term, filter and root selectors are disabled and the button reads
\* "Stop" exactly when the session is running; they are enabled (the root
\* selector in its readonly, selectable state) and the button reads "Search"
\* exactly when it is not.
C39_ControlsFollowSession ==
    LET disabled == /\ dlg.widgets.search_combo = "disabled"
                    /\ dlg.widgets.filter_combo = "disabled"
                    /\ dlg.widgets.root_combo = "disabled"
        enabled  == /\ dlg.widgets.search_combo = "normal"
                    /\ dlg.widgets.filter_combo = "normal"
                    /\ dlg.widgets.root_combo = "readonly"
    IN
    /\ (disabled /\ dlg.widgets.search_button = "Stop") <=> dlg.search_running
    /\ (enabled /\ dlg.widgets.search_button = "Search") <=> ~dlg.search_running

\* C39 witness: a search was started and then cancelled while its thread was
\* still running: the controls went to disabled / "Stop" and are back to
\* enabled / "Search".
C39_Witness ==
    /\ nsearch = 1 /\ IsAlive(1) /\ 1 \in cancelled
    /\ ~dlg.search_running
    /\ dlg.widgets = WidgetsIdle
    /\ dlg.status_var = StatusText("Search cancelled")

\* C40: once the dialog is constructed, the selected root label is a key of
\* the current option set, after any refreshes, picker choices, selections and
\* changes of the active local and remote directories.
C40_SelectedLabelIsOption ==
    main_pc = "loop"
    => /\ dlg.root_var # ""
       /\ Cardinality({ i \in 1 .. Len(dlg.root_options) :
                          dlg.root_options[i].label = dlg.root_var }) = 1

\* C40 witness: the directory /e chosen in the picker is selected and is kept as
\* a third option by a refresh that finds the active local directory /s and the
\* remote directory /r.
C40_Witness ==
    /\ main_pc = "loop"
    /\ picked = "/e" /\ dlg.root_var = "/e"
    /\ Len(dlg.root_options) = 3
    /\ dlg.root_options[1].label = "/s"
    /\ dlg.root_options[2].label = "Remote: /r"
    /\ dlg.root_options[3].label = "/e"

====
